---- MODULE Spec2Model ----
(***************************************************************************)
(* The vote admission pipeline of convex/votes.ts and the poll store of    *)
(* convex/polls.ts.  The database is the pair (polls, votes).  A Convex    *)
(* mutation (cast, recordVote, create) runs as one serializable            *)
(* transaction and is one step; the action castWithFace is not a           *)
(* transaction: its siteverify call, its vector search and its             *)
(* runMutation(recordVote) are three steps other calls interleave with.    *)
(***************************************************************************)
EXTENDS Integers, Sequences, FiniteSets, TLC

VARIABLES
    polls,      \* table "polls": poll id -> document
    votes,      \* table "votes": the documents in insertion order (_id = index)
    now,        \* Date.now(), in milliseconds
    secretKey,  \* process.env.CLOUDFLARE_TURNSTILE_SECRET_KEY is set
    calls       \* the client calls in flight or answered: session -> call

vars == <<polls, votes, now, secretKey, calls>>

(***************************************************************************)
(* Bounds and program constants.                                           *)
(***************************************************************************)
MaxVotes == 3

WindowMs == 3600000

DefaultMaxVotes == 3

ThresholdNum == 95

ThresholdDen == 100

(***************************************************************************)
(* JavaScript values: an optional value is <<>> (undefined) or <<x>>.      *)
(***************************************************************************)
Undefined == <<>>

TruthyString(o) == o # Undefined /\ o[1] # ""

TruthyNumber(o) == o # Undefined /\ o[1] # 0

JsOr(n, d) == IF n # 0 THEN n ELSE d

(***************************************************************************)
(* What a handler hands back: true, or a thrown error.                     *)
(***************************************************************************)
Ok == [ok |-> TRUE, error |-> "", maxVotes |-> 0]

Throw(msg) == [ok |-> FALSE, error |-> msg, maxVotes |-> 0]

Pending == [ok |-> FALSE, error |-> "pending", maxVotes |-> 0]

BotVerificationFailed == "Bot verification failed. Please try again."

FetchFailed == "fetch failed"

PollNotFound == "Poll not found"

PollIsClosed == "Poll is closed"

AlreadyVotedDevice == "You have already voted on this device."

AlreadyVotedFace == "You have already voted (Face ID detected)."

RateLimitCast == "Rate limit exceeded. You can only vote ${maxVotes} times per hour per network."

RateLimitRecord == "Rate limit exceeded."

IsRateLimit(r) == r.error \in {RateLimitCast, RateLimitRecord}

(***************************************************************************)
(* Queries on the votes table.                                             *)
(***************************************************************************)
\* the lookup not restricted to the poll
hasUserVoted_AnyPoll(db, pollId, fingerprint) ==
    \E i \in DOMAIN db : db[i].voterFingerprint = fingerprint

hasUserVoted(db, pollId, fingerprint) ==
    \E i \in DOMAIN db :
        db[i].pollId = pollId /\ db[i].voterFingerprint = fingerprint

\* the index range by the network alone, the poll left out
recentVotesFromIP_AnyPoll(db, pollId, ipHash, oneHourAgo) ==
    {i \in DOMAIN db :
        /\ db[i].ipHash = ipHash
        /\ db[i].timestamp >= oneHourAgo}

\* gt in place of gte: the lower edge of the window left out
recentVotesFromIP_Exclusive(db, pollId, ipHash, oneHourAgo) ==
    {i \in DOMAIN db :
        /\ db[i].pollId = pollId
        /\ db[i].ipHash = ipHash
        /\ db[i].timestamp > oneHourAgo}

\* the range filter on the timestamp left out
recentVotesFromIP_NoFilter(db, pollId, ipHash, oneHourAgo) ==
    {i \in DOMAIN db : db[i].pollId = pollId /\ db[i].ipHash = ipHash}

recentVotesFromIP(db, pollId, ipHash, oneHourAgo) ==
    {i \in DOMAIN db :
        /\ db[i].pollId = pollId
        /\ db[i].ipHash = ipHash
        /\ db[i].timestamp >= oneHourAgo}

(***************************************************************************)
(* The vector index by_embedding: cosine similarity, compared exactly on   *)
(* integer vectors (a descriptor's trailing zero coordinates are left      *)
(* out).  cos(a,b) = Dot(a,b) / sqrt(Norm2(a) * Norm2(b)).                 *)
(***************************************************************************)
RECURSIVE Dot(_, _)
Dot(a, b) ==
    IF a = <<>> \/ b = <<>> THEN 0
    ELSE Head(a) * Head(b) + Dot(Tail(a), Tail(b))

Norm2(a) == Dot(a, a)

SignedSquare(x) == IF x >= 0 THEN x * x ELSE 0 - (x * x)

\* cos(v, a) >= cos(v, b)
CosGe(v, a, b) ==
    SignedSquare(Dot(v, a)) * Norm2(b) >= SignedSquare(Dot(v, b)) * Norm2(a)

\* >= in place of >
ScoreAbove_Inclusive(v, a, num, den) ==
    SignedSquare(Dot(v, a)) * den * den >= num * num * Norm2(v) * Norm2(a)

\* cos(v, a) > num / den, for num, den >= 0
ScoreAbove(v, a, num, den) ==
    SignedSquare(Dot(v, a)) * den * den > num * num * Norm2(v) * Norm2(a)

\* the filter on pollId left out
vectorSearch_AllPolls(db, vector, pollId) ==
    LET indexed == {i \in DOMAIN db : db[i].embedding # <<>>}
    IN  IF indexed = {} THEN <<>>
        ELSE <<CHOOSE i \in indexed :
                 \A j \in indexed :
                     CosGe(vector, db[i].embedding, db[j].embedding)>>

\* ctx.vectorSearch("votes", "by_embedding", {vector, limit: 1, filter: pollId})
vectorSearch(db, vector, pollId) ==
    LET indexed == {i \in DOMAIN db :
                        db[i].pollId = pollId /\ db[i].embedding # <<>>}
    IN  IF indexed = {} THEN <<>>
        ELSE <<CHOOSE i \in indexed :
                 \A j \in indexed :
                     CosGe(vector, db[i].embedding, db[j].embedding)>>

(***************************************************************************)
(* The Turnstile check of cast and castWithFace.  outcome is what the      *)
(* siteverify request does: it answers {success: true}, it answers         *)
(* {success: false}, or fetch()/json() throws.                             *)
(***************************************************************************)
SiteverifyOutcomes == {"success:true", "success:false", "throws"}

\* the token is verified whether or not the secret is configured
CallsSiteverify_IgnoresKey(args) == TruthyString(args.token)

CallsSiteverify(args) == TruthyString(args.token) /\ secretKey

\* success is not looked at: only a thrown fetch rejects
Turnstile_IgnoresSuccess(args, outcome) ==
    IF CallsSiteverify(args) /\ outcome = "throws" THEN Throw(FetchFailed) ELSE Ok

\* a thrown fetch is swallowed: fail-open on a service error
Turnstile_FailOpenOnError(args, outcome) ==
    IF CallsSiteverify(args) /\ outcome = "success:false"
    THEN Throw(BotVerificationFailed)
    ELSE Ok

Turnstile(args, outcome) ==
    IF CallsSiteverify(args)
    THEN IF outcome = "throws" THEN Throw(FetchFailed)
         ELSE IF outcome # "success:true" THEN Throw(BotVerificationFailed)
         ELSE Ok
    ELSE Ok

(***************************************************************************)
(* The checks and the insert shared by cast and recordVote.                *)
(***************************************************************************)
IsClosed(poll, t) ==
    TruthyNumber(poll.settings.closeAt) /\ t > poll.settings.closeAt[1]

\* the negation of allowMultipleVotes left out
IsDuplicate_NoNegation(poll, args) ==
    /\ poll.settings.allowMultipleVotes
    /\ hasUserVoted(votes, args.pollId, args.voterFingerprint)

IsDuplicate(poll, args) ==
    /\ ~poll.settings.allowMultipleVotes
    /\ hasUserVoted(votes, args.pollId, args.voterFingerprint)

maxVotesOf(poll) == JsOr(poll.settings.maxVotesPerIP, DefaultMaxVotes)

\* > in place of >=
IsRateLimited_OffByOne(poll, args, t) ==
    Cardinality(recentVotesFromIP(votes, args.pollId, args.ipAddress, t - WindowMs))
        > maxVotesOf(poll)

IsRateLimited(poll, args, t) ==
    Cardinality(recentVotesFromIP(votes, args.pollId, args.ipAddress, t - WindowMs))
        >= maxVotesOf(poll)

VoteDoc(args, t, embedding) ==
    [pollId |-> args.pollId,
     optionIndex |-> args.optionIndex,
     voterFingerprint |-> args.voterFingerprint,
     ipHash |-> args.ipAddress,
     userAgent |-> args.userAgent,
     timestamp |-> t,
     embedding |-> embedding]

Rejected(result) == [result |-> result, votes |-> votes]

\* the vote of a fingerprint replaces the vote it already has on the poll
Inserted_Upsert(args, t, embedding) ==
    [result |-> Ok,
     votes |-> IF hasUserVoted(votes, args.pollId, args.voterFingerprint)
               THEN [i \in DOMAIN votes |->
                        IF /\ votes[i].pollId = args.pollId
                           /\ votes[i].voterFingerprint = args.voterFingerprint
                        THEN VoteDoc(args, t, embedding) ELSE votes[i]]
               ELSE Append(votes, VoteDoc(args, t, embedding))]

Inserted(args, t, embedding) ==
    [result |-> Ok, votes |-> Append(votes, VoteDoc(args, t, embedding))]

\* the vote written before the rate limit is checked, and left there
Admit_WriteThenReject(args, t, rateLimitError, embedding) ==
    IF args.pollId \notin DOMAIN polls THEN Rejected(Throw(PollNotFound))
    ELSE LET poll == polls[args.pollId] IN
         IF IsClosed(poll, t) THEN Rejected(Throw(PollIsClosed))
         ELSE IF IsDuplicate(poll, args) THEN Rejected(Throw(AlreadyVotedDevice))
         ELSE IF IsRateLimited(poll, args, t)
              THEN [result |-> Throw(rateLimitError),
                    votes |-> Inserted(args, t, embedding).votes]
         ELSE Inserted(args, t, embedding)

\* the rate limit checked before the device duplicate
Admit_RateBeforeDuplicate(args, t, rateLimitError, embedding) ==
    IF args.pollId \notin DOMAIN polls THEN Rejected(Throw(PollNotFound))
    ELSE LET poll == polls[args.pollId] IN
         IF IsClosed(poll, t) THEN Rejected(Throw(PollIsClosed))
         ELSE IF IsRateLimited(poll, args, t)
              THEN Rejected([ok |-> FALSE, error |-> rateLimitError,
                             maxVotes |-> IF rateLimitError = RateLimitCast
                                          THEN maxVotesOf(poll) ELSE 0])
         ELSE IF IsDuplicate(poll, args) THEN Rejected(Throw(AlreadyVotedDevice))
         ELSE Inserted(args, t, embedding)

\* lines 89-138 of cast and 152-187 of recordVote: the same checks in the same
\* order; they differ in the rate-limit message and in the embedding stored
Admit(args, t, rateLimitError, embedding) ==
    IF args.pollId \notin DOMAIN polls THEN Rejected(Throw(PollNotFound))
    ELSE LET poll == polls[args.pollId] IN
         IF IsClosed(poll, t) THEN Rejected(Throw(PollIsClosed))
         ELSE IF IsDuplicate(poll, args) THEN Rejected(Throw(AlreadyVotedDevice))
         ELSE IF IsRateLimited(poll, args, t)
              THEN Rejected([ok |-> FALSE, error |-> rateLimitError,
                             maxVotes |-> IF rateLimitError = RateLimitCast
                                          THEN maxVotesOf(poll) ELSE 0])
         ELSE Inserted(args, t, embedding)

\* mutation cast
cast(args, outcome) ==
    IF ~Turnstile(args, outcome).ok THEN Rejected(Turnstile(args, outcome))
    ELSE Admit(args, now, RateLimitCast, <<>>)

\* the vote inserted without the checks of lines 152-177
recordVote_InsertOnly(args) == Inserted(args, now, args.embedding)

\* the vote inserted without its embedding
recordVote_NoEmbedding(args) == Admit(args, now, RateLimitRecord, <<>>)

\* internalMutation recordVote
recordVote(args) == Admit(args, now, RateLimitRecord, args.embedding)

\* the vector search step of castWithFace: TRUE when it throws
FaceDetected(args) ==
    LET similarVotes == vectorSearch(votes, args.embedding, args.pollId) IN
    /\ Len(similarVotes) > 0
    /\ ScoreAbove(args.embedding, votes[similarVotes[1]].embedding,
                  ThresholdNum, ThresholdDen)

(***************************************************************************)
(* Client sessions.                                                        *)
(***************************************************************************)
Put(s, call) == [x \in DOMAIN calls \cup {s} |-> IF x = s THEN call ELSE calls[x]]

Call(fn, args, pc, siteverify, result) ==
    [fn |-> fn, args |-> args, pc |-> pc, siteverify |-> siteverify, result |-> result]

Fetched(args, outcome) == IF CallsSiteverify(args) THEN outcome ELSE "not called"

\* a client calls the mutation cast: one transaction
CallCast(s, args, outcome) ==
    /\ s \notin DOMAIN calls
    /\ LET r == cast(args, outcome) IN
       /\ r.result.ok => Len(votes) < MaxVotes
       /\ votes' = r.votes
       /\ calls' = Put(s, Call("cast", args, "done", Fetched(args, outcome), r.result))
    /\ UNCHANGED <<polls, now, secretKey>>

\* a client calls the action castWithFace
CallCastWithFace(s, args) ==
    /\ s \notin DOMAIN calls
    /\ calls' = Put(s, Call("castWithFace", args, "verify", "not called", Pending))
    /\ UNCHANGED <<polls, votes, now, secretKey>>

\* castWithFace, lines 202-220: the Turnstile check
FaceVerify(s, outcome) ==
    /\ s \in DOMAIN calls /\ calls[s].pc = "verify"
    /\ LET c == calls[s]
           v == Turnstile(c.args, outcome) IN
       calls' = Put(s, Call(c.fn, c.args, IF v.ok THEN "search" ELSE "done",
                            Fetched(c.args, outcome), IF v.ok THEN Pending ELSE v))
    /\ UNCHANGED <<polls, votes, now, secretKey>>

\* castWithFace, lines 222-232: the vector search
FaceSearch(s) ==
    /\ s \in DOMAIN calls /\ calls[s].pc = "search"
    /\ LET c == calls[s] IN
       calls' = IF FaceDetected(c.args)
                THEN Put(s, Call(c.fn, c.args, "done", c.siteverify, Throw(AlreadyVotedFace)))
                ELSE Put(s, Call(c.fn, c.args, "record", c.siteverify, Pending))
    /\ UNCHANGED <<polls, votes, now, secretKey>>

\* castWithFace, lines 234-243: runMutation(recordVote), one transaction
FaceRecord(s) ==
    /\ s \in DOMAIN calls /\ calls[s].pc = "record"
    /\ LET c == calls[s]
           r == recordVote(c.args) IN
       /\ r.result.ok => Len(votes) < MaxVotes
       /\ votes' = r.votes
       /\ calls' = Put(s, Call(c.fn, c.args, "done", c.siteverify, r.result))
    /\ UNCHANGED <<polls, now, secretKey>>

\* the error of a ctx.db.insert or ctx.runMutation that failed in the database
StorageError == "storage error"

\* cast passes its checks and ctx.db.insert throws: the transaction writes
\* nothing and the handler holds the rejected promise
CastInsertFails(s, args, outcome) ==
    /\ s \notin DOMAIN calls
    /\ cast(args, outcome).result.ok
    /\ calls' = Put(s, Call("cast", args, "insert failed", Fetched(args, outcome), Pending))
    /\ UNCHANGED <<polls, votes, now, secretKey>>

\* castWithFace: ctx.runMutation(recordVote) passes its checks and fails in
\* the database
RecordInsertFails(s) ==
    /\ s \in DOMAIN calls /\ calls[s].pc = "record"
    /\ recordVote(calls[s].args).result.ok
    /\ calls' = Put(s, Call(calls[s].fn, calls[s].args, "insert failed",
                            calls[s].siteverify, Pending))
    /\ UNCHANGED <<polls, votes, now, secretKey>>

\* the await is in no try/catch and in no loop: the error leaves the handler
SurfaceInsertError(s) ==
    /\ s \in DOMAIN calls /\ calls[s].pc = "insert failed"
    /\ calls' = Put(s, Call(calls[s].fn, calls[s].args, "done",
                            calls[s].siteverify, Throw(StorageError)))
    /\ UNCHANGED <<polls, votes, now, secretKey>>

\* what the caller of cast or castWithFace receives: on success the literal
\* true, which carries no vote id (the id ctx.db.insert returns is dropped)
Returned(result) == [accepted |-> result.ok, voteId |-> Undefined]

\* the id the database gives the i-th vote inserted
VoteId(i) == <<i>>

\* the client has its answer
Return(s) ==
    /\ s \in DOMAIN calls /\ calls[s].pc = "done"
    /\ calls' = [x \in DOMAIN calls \ {s} |-> calls[x]]
    /\ UNCHANGED <<polls, votes, now, secretKey>>

\* mutation create of polls.ts; id is the id the database generates
create(id, settings) ==
    /\ id \notin DOMAIN polls
    /\ polls' = (id :> [question |-> "Q", options |-> <<"A", "B">>,
                        settings |-> settings,
                        creatorFingerprint |-> Undefined]) @@ polls
    /\ UNCHANGED <<votes, now, secretKey, calls>>

\* null
Null == <<>>

\* the guard votes.length > 0 left out: a division by zero on an empty poll
Percentage_NoGuard(optionVotes, length) ==
    [num |-> optionVotes * 100, den |-> length]

\* (optionVotes / votes.length) * 100 as the exact fraction num / den; 0 is 0 / 1
Percentage(optionVotes, length) ==
    IF length > 0 THEN [num |-> optionVotes * 100, den |-> length]
    ELSE [num |-> 0, den |-> 1]

\* the entries ranked by their count, highest first
getResults_Ranked(pollId) ==
    IF pollId \notin DOMAIN polls THEN Null
    ELSE LET poll == polls[pollId]
             pollVotes == {i \in DOMAIN votes : votes[i].pollId = pollId}
             results == [index \in DOMAIN poll.options |->
                           LET optionVotes ==
                                   Cardinality({i \in pollVotes :
                                                   votes[i].optionIndex = index - 1})
                           IN  [text |-> poll.options[index],
                                votes |-> optionVotes,
                                percentage |->
                                    Percentage(optionVotes, Cardinality(pollVotes))]]
         IN  [question |-> poll.question,
              options |-> SortSeq(results, LAMBDA x, y : x.votes > y.votes),
              totalVotes |-> Cardinality(pollVotes)]

\* query getResults of polls.ts; index counts from 1 here, from 0 in the code
getResults(pollId) ==
    IF pollId \notin DOMAIN polls THEN Null
    ELSE LET poll == polls[pollId]
             pollVotes == {i \in DOMAIN votes : votes[i].pollId = pollId}
             results == [index \in DOMAIN poll.options |->
                           LET optionVotes ==
                                   Cardinality({i \in pollVotes :
                                                   votes[i].optionIndex = index - 1})
                           IN  [text |-> poll.options[index],
                                votes |-> optionVotes,
                                percentage |->
                                    Percentage(optionVotes, Cardinality(pollVotes))]]
         IN  [question |-> poll.question,
              options |-> results,
              totalVotes |-> Cardinality(pollVotes)]

\* the lookup by the poll alone, the fingerprint left out of the index range
hasVoted_AnyDevice(pollId, fingerprint) ==
    \E i \in DOMAIN votes : votes[i].pollId = pollId

\* query hasVoted of votes.ts
hasVoted(pollId, fingerprint) ==
    LET vote == {i \in DOMAIN votes :
                    votes[i].pollId = pollId /\ votes[i].voterFingerprint = fingerprint}
    IN  vote # {}

\* a query that ran; snapshot is the number of votes committed when it read
Query(fn, args, snapshot, result) ==
    [fn |-> fn, args |-> args, pc |-> "done", snapshot |-> snapshot, result |-> result]

\* the query deletes the oldest vote
CallGetResults_Writes(r, pollId) ==
    /\ r \notin DOMAIN calls
    /\ calls' = Put(r, Query("getResults", [pollId |-> pollId], Len(votes),
                             getResults(pollId)))
    /\ votes' = IF votes = <<>> THEN votes ELSE Tail(votes)
    /\ UNCHANGED <<polls, now, secretKey>>

\* a client calls the query getResults
CallGetResults(r, pollId) ==
    /\ r \notin DOMAIN calls
    /\ calls' = Put(r, Query("getResults", [pollId |-> pollId], Len(votes),
                             getResults(pollId)))
    /\ UNCHANGED <<polls, votes, now, secretKey>>

\* a client calls the query hasVoted
CallHasVoted(r, pollId, fingerprint) ==
    /\ r \notin DOMAIN calls
    /\ calls' = Put(r, Query("hasVoted",
                             [pollId |-> pollId, fingerprint |-> fingerprint],
                             Len(votes), hasVoted(pollId, fingerprint)))
    /\ UNCHANGED <<polls, votes, now, secretKey>>

\* time passes
Tick(t) ==
    /\ t > now
    /\ now' = t
    /\ UNCHANGED <<polls, votes, secretKey, calls>>

(***************************************************************************)
(* The system over a domain D of inputs: the ids and settings of the polls *)
(* created, the calls clients make, the sessions making them, the instants *)
(* the clock takes and whether the Turnstile secret is configured.         *)
(***************************************************************************)
InitOver(D) ==
    /\ polls = <<>>
    /\ votes = <<>>
    /\ now = CHOOSE t \in D.instants : \A u \in D.instants : t <= u
    /\ secretKey \in D.keys
    /\ calls = <<>>

NextOver(D) ==
    \/ \E id \in D.pollIds, settings \in D.settings : create(id, settings)
    \/ \E s \in D.sessions, args \in D.castArgs, outcome \in SiteverifyOutcomes :
          CallCast(s, args, outcome)
    \/ \E s \in D.sessions, args \in D.faceArgs : CallCastWithFace(s, args)
    \/ \E s \in D.sessions, outcome \in SiteverifyOutcomes : FaceVerify(s, outcome)
    \/ \E s \in D.sessions : FaceSearch(s)
    \/ \E s \in D.sessions : FaceRecord(s)
    \/ \E s \in D.sessions : Return(s)
    \/ \E t \in D.instants : Tick(t)

Settings(allowMultipleVotes, maxVotesPerIP, requireCaptcha, closeAt) ==
    [allowMultipleVotes |-> allowMultipleVotes, maxVotesPerIP |-> maxVotesPerIP,
     requireCaptcha |-> requireCaptcha, closeAt |-> closeAt]

Args(pollId, optionIndex, voterFingerprint, ipAddress, token, embedding) ==
    [pollId |-> pollId, optionIndex |-> optionIndex,
     voterFingerprint |-> voterFingerprint, ipAddress |-> ipAddress,
     userAgent |-> "ua", token |-> token, embedding |-> embedding]

\* face descriptors: cos(FaceA, FaceNear) = 4/sqrt(17) = 0.9701...,
\* cos(FaceA, FaceFar) = 4/5, cos(FaceA, FaceEdge) = 19/20
FaceA == <<1>>

FaceNear == <<4, 1>>

FaceFar == <<4, 3>>

FaceEdge == <<19, 5, 3, 2, 1>>

(***************************************************************************)
(* Concurrent submissions to one poll.                                     *)
(***************************************************************************)
RaceDomain ==
    [pollIds |-> {"p1"},
     settings |-> {Settings(am, mx, FALSE, Undefined) :
                      am \in BOOLEAN, mx \in {1, 2}},
     castArgs |-> {Args("p1", 0, fp, "n1", Undefined, <<>>) : fp \in {"d1", "d2"}},
     faceArgs |-> {Args("p1", 0, fp, "n1", Undefined, e) :
                      fp \in {"d1", "d2"}, e \in {FaceA, FaceNear}},
     sessions |-> {"s1", "s2"},
     instants |-> {1, WindowMs + 1},
     keys |-> {FALSE}]

SpecRace == InitOver(RaceDomain) /\ [][NextOver(RaceDomain)]_vars

(***************************************************************************)
(* Sequential submissions over the passage of time.                        *)
(***************************************************************************)
WindowDomain ==
    [pollIds |-> {"p1"},
     settings |-> {Settings(am, mx, FALSE, Undefined) :
                      am \in BOOLEAN, mx \in {0 - 1, 0, 1, 2}},
     castArgs |-> {Args("p1", 0, fp, ip, Undefined, <<>>) :
                      fp \in {"d1", "d2"}, ip \in {"n1", "n2"}},
     faceArgs |-> {Args("p1", 0, "d1", "n1", Undefined, FaceA),
                   Args("p1", 0, "d2", "n1", Undefined, FaceFar)},
     sessions |-> {"s1"},
     instants |-> {1, 2, WindowMs + 1, WindowMs + 2},
     keys |-> {FALSE}]

SpecWindow == InitOver(WindowDomain) /\ [][NextOver(WindowDomain)]_vars

(***************************************************************************)
(* The gates of one submission: Turnstile tokens and siteverify answers,   *)
(* a poll id that names no poll ("p2" is never created), closeAt values,   *)
(* requireCaptcha, and the secret configured or not.                       *)
(***************************************************************************)
Tokens == {Undefined, <<"">>, <<"tok">>}

GateDomain ==
    [pollIds |-> {"p1"},
     settings |-> {Settings(FALSE, mx, rc, ca) :
                      mx \in {0 - 1, 1, 2}, rc \in BOOLEAN, ca \in {Undefined, <<0>>, <<2>>}},
     castArgs |-> {Args(p, 0, fp, "n1", tk, <<>>) :
                      p \in {"p1", "p2"}, fp \in {"d1", "d2"}, tk \in Tokens},
     faceArgs |-> {Args(p, 0, fp, "n1", tk, FaceA) :
                      p \in {"p1", "p2"}, fp \in {"d1", "d2"}, tk \in Tokens},
     sessions |-> {"s1"},
     instants |-> {1, 2, 3},
     keys |-> BOOLEAN]

SpecGate == InitOver(GateDomain) /\ [][NextOver(GateDomain)]_vars

(***************************************************************************)
(* Two polls: the same devices and the same faces vote on both.            *)
(***************************************************************************)
PollsDomain ==
    [pollIds |-> {"p1", "p2"},
     settings |-> {Settings(am, 2, FALSE, Undefined) : am \in BOOLEAN},
     castArgs |-> {Args(p, 0, fp, "n1", Undefined, <<>>) :
                      p \in {"p1", "p2"}, fp \in {"d1", "d2"}},
     faceArgs |-> {Args(p, 0, "d1", "n1", Undefined, FaceA) : p \in {"p1", "p2"}}
                  \cup {Args(p, 0, "d2", "n1", Undefined, FaceNear) : p \in {"p1", "p2"}},
     sessions |-> {"s1"},
     instants |-> {1, 2},
     keys |-> {FALSE}]

SpecPolls == InitOver(PollsDomain) /\ [][NextOver(PollsDomain)]_vars

(***************************************************************************)
(* Faces at similarity 0.97, 0.95 and 0.80 to a first face, each on its    *)
(* own device, and a device voting without a face.                         *)
(***************************************************************************)
FaceDomain ==
    [pollIds |-> {"p1"},
     settings |-> {Settings(FALSE, 3, FALSE, Undefined)},
     castArgs |-> {Args("p1", 0, "d5", "n1", Undefined, <<>>)},
     faceArgs |-> {Args("p1", 0, "d1", "n1", Undefined, FaceA),
                   Args("p1", 0, "d2", "n1", Undefined, FaceNear),
                   Args("p1", 0, "d3", "n1", Undefined, FaceFar),
                   Args("p1", 0, "d4", "n1", Undefined, FaceEdge)},
     sessions |-> {"s1"},
     instants |-> {1, 2},
     keys |-> {FALSE}]

SpecFace == InitOver(FaceDomain) /\ [][NextOver(FaceDomain)]_vars

(***************************************************************************)
(* Votes for each option of a poll, and for option indexes the poll does   *)
(* not have (its options are <<"A", "B">>: indexes 0 and 1).               *)
(***************************************************************************)
OptionIndexes == {0 - 1, 0, 1, 2}

ResultsDomain ==
    [pollIds |-> {"p1", "p2"},
     settings |-> {Settings(TRUE, 3, FALSE, Undefined)},
     castArgs |-> {Args(p, oi, "d1", "n1", Undefined, <<>>) :
                      p \in {"p1", "p2"}, oi \in OptionIndexes},
     faceArgs |-> {Args("p1", oi, "d2", "n2", Undefined, FaceA) : oi \in {1, 2}},
     sessions |-> {"s1"},
     instants |-> {1, 2},
     keys |-> {FALSE}]

SpecResults == InitOver(ResultsDomain) /\ [][NextOver(ResultsDomain)]_vars

(***************************************************************************)
(* Two polls with a limit of one vote per network, two devices and two     *)
(* networks.                                                               *)
(***************************************************************************)
ScopeDomain ==
    [pollIds |-> {"p1", "p2"},
     settings |-> {Settings(am, 1, FALSE, Undefined) : am \in BOOLEAN},
     castArgs |-> {Args(p, 0, fp, ip, Undefined, <<>>) :
                      p \in {"p1", "p2"}, fp \in {"d1", "d2"}, ip \in {"n1", "n2"}},
     faceArgs |-> {Args("p1", 0, "d2", ip, Undefined, FaceA) : ip \in {"n1", "n2"}},
     sessions |-> {"s1"},
     instants |-> {1, 2},
     keys |-> {FALSE}]

SpecScope == InitOver(ScopeDomain) /\ [][NextOver(ScopeDomain)]_vars

(***************************************************************************)
(* Readers calling the queries getResults and hasVoted while votes are     *)
(* cast.                                                                   *)
(***************************************************************************)
Readers == {"r1", "r2"}

QueryDomain ==
    [pollIds |-> {"p1"},
     settings |-> {Settings(FALSE, 3, FALSE, Undefined)},
     castArgs |-> {Args("p1", 0, "d1", "n1", Undefined, <<>>),
                   Args("p1", 1, "d2", "n1", Undefined, <<>>)},
     faceArgs |-> {Args("p1", 1, "d1", "n1", Undefined, FaceA)},
     sessions |-> {"s1"},
     instants |-> {1, 2},
     keys |-> {FALSE}]

NextQueries ==
    \/ NextOver(QueryDomain)
    \/ \E r \in Readers : CallGetResults(r, "p1")
    \/ \E r \in Readers, fp \in {"d1", "d2"} : CallHasVoted(r, "p1", fp)
    \/ \E r \in Readers : Return(r)

SpecQueries == InitOver(QueryDomain) /\ [][NextQueries]_vars

(***************************************************************************)
(* Submissions whose insert fails in the database.                         *)
(***************************************************************************)
StorageDomain ==
    [pollIds |-> {"p1"},
     settings |-> {Settings(FALSE, 2, FALSE, Undefined)},
     castArgs |-> {Args("p1", 0, fp, "n1", Undefined, <<>>) : fp \in {"d1", "d2"}},
     faceArgs |-> {Args("p1", 0, "d1", "n1", Undefined, FaceA),
                   Args("p1", 0, "d2", "n1", Undefined, FaceFar)},
     sessions |-> {"s1", "s2"},
     instants |-> {1, 2},
     keys |-> {FALSE}]

NextStorage ==
    \/ NextOver(StorageDomain)
    \/ \E s \in StorageDomain.sessions, args \in StorageDomain.castArgs,
          outcome \in SiteverifyOutcomes : CastInsertFails(s, args, outcome)
    \/ \E s \in StorageDomain.sessions : RecordInsertFails(s)
    \/ \E s \in StorageDomain.sessions : SurfaceInsertError(s)

SpecStorage == InitOver(StorageDomain) /\ [][NextStorage]_vars

(***************************************************************************)
(* Scheduling.  A handler that is running takes its next step: the face    *)
(* search, recordVote, and the Turnstile block when it sends no request.   *)
(* The answer to a siteverify request is the service's to give: the code   *)
(* sets no timeout on the fetch and nothing obliges the answer to come.    *)
(***************************************************************************)
LiveDomain ==
    [pollIds |-> {"p1"},
     settings |-> {Settings(FALSE, 3, FALSE, Undefined)},
     castArgs |-> {Args("p1", 0, "d1", "n1", tk, <<>>) : tk \in {Undefined, <<"tok">>}},
     faceArgs |-> {Args("p1", 0, "d2", "n1", tk, FaceA) : tk \in {Undefined, <<"tok">>}},
     sessions |-> {"s1"},
     instants |-> {1, 2},
     keys |-> BOOLEAN]

\* the Turnstile block of castWithFace when it makes no request
FaceVerifyNoFetch(s) ==
    /\ s \in DOMAIN calls
    /\ ~CallsSiteverify(calls[s].args)
    /\ FaceVerify(s, "success:true")

HandlerFairness(D) ==
    \A s \in D.sessions :
        /\ WF_vars(FaceVerifyNoFetch(s))
        /\ WF_vars(FaceSearch(s))
        /\ WF_vars(FaceRecord(s))

SpecLive ==
    InitOver(LiveDomain) /\ [][NextOver(LiveDomain)]_vars /\ HandlerFairness(LiveDomain)

(***************************************************************************)
(* The create-poll form (component Home of page.tsx) and the mutation      *)
(* create called with the arguments a client chooses.  The state of the    *)
(* mounted form is kept in calls under the key "home".                     *)
(***************************************************************************)
MinOptions == 2
MaxOptions == 10

\* String.prototype.trim on the labels used here: blank strings become ""
Blank == {"", " "}
Trim(str) == IF str \in Blank THEN "" ELSE str

\* the useState initial values of Home
HomeInit ==
    [question |-> "", options |-> <<"", "">>,
     allowMultipleVotes |-> FALSE, maxVotesPerIP |-> 3]

Mounted(c) == c \in DOMAIN calls

SetHome(field, value) ==
    /\ calls' = [calls EXCEPT !["home"][field] = value]
    /\ UNCHANGED <<polls, votes, now, secretKey>>

setQuestion(value) ==
    /\ Mounted("home")
    /\ SetHome("question", value)

handleAddOption ==
    /\ Mounted("home")
    /\ Len(calls["home"].options) < MaxOptions
    /\ SetHome("options", Append(calls["home"].options, ""))

\* newOptions.splice(index, 1), index counted from 0
Splice(options, index) ==
    SubSeq(options, 1, index) \o SubSeq(options, index + 2, Len(options))

handleRemoveOption(index) ==
    /\ Mounted("home")
    /\ index \in 0 .. Len(calls["home"].options) - 1
    /\ Len(calls["home"].options) > MinOptions
    /\ SetHome("options", Splice(calls["home"].options, index))

handleOptionChange(index, value) ==
    /\ Mounted("home")
    /\ index \in 0 .. Len(calls["home"].options) - 1
    /\ SetHome("options", [calls["home"].options EXCEPT ![index + 1] = value])

\* options.filter((o) => o.trim())
FilterBlank(options) == SelectSeq(options, LAMBDA o : Trim(o) # "")

\* the document the handler of create inserts
insertPoll(id, args) ==
    (id :> [question |-> args.question, options |-> args.options,
            settings |-> args.settings,
            creatorFingerprint |-> args.creatorFingerprint]) @@ polls

\* mutation create of polls.ts called with args; id is the id the database
\* generates
createPoll(id, args) ==
    /\ id \notin DOMAIN polls
    /\ polls' = insertPoll(id, args)
    /\ UNCHANGED <<votes, now, secretKey, calls>>

\* handleSubmit of Home: returns early on a blank question or a blank option,
\* else creates the poll and leaves the form for the poll page
handleSubmit(id) ==
    /\ Mounted("home")
    /\ Trim(calls["home"].question) # ""
    /\ ~\E i \in DOMAIN calls["home"].options : Trim(calls["home"].options[i]) = ""
    /\ id \notin DOMAIN polls
    /\ polls' = insertPoll(id,
                   [question |-> calls["home"].question,
                    options |-> FilterBlank(calls["home"].options),
                    settings |-> Settings(calls["home"].allowMultipleVotes,
                                          calls["home"].maxVotesPerIP, FALSE, Undefined),
                    creatorFingerprint |-> <<"d1">>])
    /\ calls' = [x \in DOMAIN calls \ {"home"} |-> calls[x]]
    /\ UNCHANGED <<votes, now, secretKey>>

Repeat(label, n) == [i \in 1 .. n |-> label]

\* what is typed into the form, and the option arrays a client passes to
\* create without the form
FormDomain ==
    [pollIds |-> {"p1"},
     questions |-> {" ", "Q"},
     labels |-> {"", "A"},
     options |-> {Repeat("A", n) : n \in {0, 1, MinOptions, MaxOptions, MaxOptions + 1}}]

InitForm ==
    /\ polls = <<>>
    /\ votes = <<>>
    /\ now = 1
    /\ secretKey = FALSE
    /\ calls = ("home" :> HomeInit)

NextForm ==
    \/ \E value \in FormDomain.questions : setQuestion(value)
    \/ handleAddOption
    \/ \E index \in 0 .. MaxOptions - 1 : handleRemoveOption(index)
    \/ \E index \in 0 .. MaxOptions - 1, value \in FormDomain.labels :
          handleOptionChange(index, value)
    \/ \E id \in FormDomain.pollIds : handleSubmit(id)
    \/ \E id \in FormDomain.pollIds, options \in FormDomain.options :
          createPoll(id, [question |-> "Q", options |-> options,
                          settings |-> Settings(TRUE, 3, FALSE, Undefined),
                          creatorFingerprint |-> Undefined])

SpecForm == InitForm /\ [][NextForm]_vars

(***************************************************************************)
(* The component FaceAuth.  Each mounted instance keeps its state in calls *)
(* under its own key: the useState values, the two refs, how far           *)
(* loadModels, startVideo and captureCtx have got, the last toast it       *)
(* raised and how often it has called onFaceDetected.  An unmounted        *)
(* instance stays in calls while a captureCtx of it may still be running.  *)
(***************************************************************************)
FaceAuths == {"fa1", "fa2"}

ModelsError == <<"Failed to load AI models. Please refresh the page.">>
CameraError == <<"Camera access denied. Please allow camera access to vote.">>
ToastCameraNotActive == <<"Camera is not active">>
ToastNoFace == <<"No face detected. Please position yourself clearly and try again.">>
ToastDetectionError == <<"Failed to process face. Please try again.">>

\* onFaceDetected calls of one instance the model follows
MaxDeliveries == 2

\* the state of an instance at mount: loadModels is at its dynamic import,
\* the effect on [modelsLoaded] has not run yet
FaceAuthInit ==
    [mounted |-> TRUE, modelsLoaded |-> FALSE, cameraActive |-> FALSE,
     capturing |-> FALSE, error |-> Null, faceApiRef |-> FALSE,
     load |-> "import", effectDep |-> Null, video |-> "none",
     capture |-> "idle", toast |-> Null, delivered |-> 0]

SetFaceAuth(f, c) ==
    /\ calls' = [calls EXCEPT ![f] = c]
    /\ UNCHANGED <<polls, votes, now, secretKey>>

IsMounted(f) == f \in DOMAIN calls /\ calls[f].mounted

\* videoRef.current: the video element exists while the instance is mounted
\* and renders its main view
VideoRef(c) == c.mounted /\ c.error = Null

\* the parent renders <FaceAuth/>
mountFaceAuth(f) ==
    /\ f \notin DOMAIN calls
    /\ ~\E g \in FaceAuths : IsMounted(g)
    /\ calls' = (f :> FaceAuthInit) @@ calls
    /\ UNCHANGED <<polls, votes, now, secretKey>>

\* loadModels: await import("face-api.js")
importFaceApi(f, ok) ==
    /\ IsMounted(f) /\ calls[f].load = "import"
    /\ SetFaceAuth(f, IF ok
                      THEN [calls[f] EXCEPT !.faceApiRef = TRUE, !.load = "nets"]
                      ELSE [calls[f] EXCEPT !.error = ModelsError, !.load = "failed"])

\* loadModels: await Promise.all of the three loadFromUri
loadFromUri(f, ok) ==
    /\ IsMounted(f) /\ calls[f].load = "nets"
    /\ SetFaceAuth(f, IF ok
                      THEN [calls[f] EXCEPT !.modelsLoaded = TRUE, !.load = "done"]
                      ELSE [calls[f] EXCEPT !.error = ModelsError, !.load = "failed"])

\* useEffect(..., [modelsLoaded]): runs after mount and after modelsLoaded
\* changed; calls startVideo, which requests the camera, if modelsLoaded
effectModelsLoaded(f) ==
    /\ IsMounted(f)
    /\ calls[f].effectDep # <<calls[f].modelsLoaded>>
    /\ SetFaceAuth(f, [calls[f] EXCEPT
                          !.effectDep = <<calls[f].modelsLoaded>>,
                          !.video = IF calls[f].modelsLoaded THEN "requested" ELSE @])

\* startVideo: getUserMedia resolves with a stream or rejects
getUserMedia(f, ok) ==
    /\ IsMounted(f) /\ calls[f].video = "requested"
    /\ SetFaceAuth(f, IF ~ok THEN [calls[f] EXCEPT !.error = CameraError, !.video = "denied"]
                      ELSE IF VideoRef(calls[f]) THEN [calls[f] EXCEPT !.video = "attached"]
                      ELSE [calls[f] EXCEPT !.video = "dropped"])

\* videoRef.current.onloadedmetadata
onloadedmetadata(f) ==
    /\ IsMounted(f) /\ calls[f].video = "attached"
    /\ SetFaceAuth(f, [calls[f] EXCEPT !.cameraActive = TRUE, !.video = "playing"])

\* the video element pauses or resumes
videoPaused(f, paused) ==
    /\ IsMounted(f)
    /\ calls[f].video = (IF paused THEN "playing" ELSE "paused")
    /\ SetFaceAuth(f, [calls[f] EXCEPT !.video = IF paused THEN "paused" ELSE "playing"])

\* the capture button is rendered and enabled without cameraActive
CaptureEnabled_IgnoresCamera(c) ==
    /\ c.mounted /\ c.error = Null
    /\ ~(~c.modelsLoaded \/ c.capturing)

\* the capture button is rendered (the error view has none) and enabled
CaptureEnabled(c) ==
    /\ c.mounted /\ c.error = Null
    /\ ~(~c.modelsLoaded \/ ~c.cameraActive \/ c.capturing)

\* click on the capture button: captureCtx up to its first await
captureCtx(f) ==
    /\ f \in DOMAIN calls
    /\ CaptureEnabled(calls[f])
    /\ VideoRef(calls[f]) /\ calls[f].faceApiRef
    /\ SetFaceAuth(f, IF calls[f].video \in {"paused", "stopped"}
                      THEN [calls[f] EXCEPT !.toast = ToastCameraNotActive,
                                            !.capturing = FALSE]
                      ELSE [calls[f] EXCEPT !.capturing = TRUE, !.capture = "detecting"])

DetectionOutcomes == {"face", "no face", "throws"}

\* the success path clearing the flag like the failure paths
Detected_ClearsFlag(c) ==
    [c EXCEPT !.video = "stopped", !.delivered = @ + 1, !.capture = "idle",
              !.capturing = FALSE]

\* captureCtx after a detection: the tracks are stopped and the descriptor
\* goes to the parent; capturing is left set
Detected(c) ==
    [c EXCEPT !.video = "stopped", !.delivered = @ + 1, !.capture = "idle"]

\* captureCtx on its failure paths; setCapturing is without effect on an
\* unmounted instance
NotDetected(c, toast) ==
    [c EXCEPT !.toast = toast, !.capture = "idle",
              !.capturing = IF c.mounted THEN FALSE ELSE @]

\* captureCtx after its await of detectSingleFace; reading
\* videoRef.current.srcObject of an unmounted instance throws into the catch
AfterDetection(c, outcome) ==
    IF outcome = "throws" THEN NotDetected(c, ToastDetectionError)
    ELSE IF outcome = "no face" THEN NotDetected(c, ToastNoFace)
    ELSE IF ~VideoRef(c) THEN NotDetected(c, ToastDetectionError)
    ELSE Detected(c)

\* the detection of a standalone instance settles
detectSingleFace(f, outcome) ==
    /\ f \in DOMAIN calls /\ calls[f].capture = "detecting"
    /\ calls[f].delivered < MaxDeliveries
    /\ SetFaceAuth(f, AfterDetection(calls[f], outcome))

\* the instance after its parent stopped rendering it; the cleanup of the
\* effect stops the tracks
Unmounted(c) ==
    [c EXCEPT !.mounted = FALSE,
              !.video = IF @ \in {"attached", "playing", "paused"} THEN "stopped" ELSE @]

\* the parent stops rendering the instance (onCancel, or a change of view)
unmountFaceAuth(f) ==
    /\ IsMounted(f)
    /\ SetFaceAuth(f, Unmounted(calls[f]))

InitFaceAuth ==
    /\ polls = <<>>
    /\ votes = <<>>
    /\ now = 1
    /\ secretKey = FALSE
    /\ calls = <<>>

NextFaceAuth ==
    \/ \E f \in FaceAuths : mountFaceAuth(f)
    \/ \E f \in FaceAuths, ok \in BOOLEAN : importFaceApi(f, ok)
    \/ \E f \in FaceAuths, ok \in BOOLEAN : loadFromUri(f, ok)
    \/ \E f \in FaceAuths : effectModelsLoaded(f)
    \/ \E f \in FaceAuths, ok \in BOOLEAN : getUserMedia(f, ok)
    \/ \E f \in FaceAuths : onloadedmetadata(f)
    \/ \E f \in FaceAuths, paused \in BOOLEAN : videoPaused(f, paused)
    \/ \E f \in FaceAuths : captureCtx(f)
    \/ \E f \in FaceAuths, outcome \in DetectionOutcomes : detectSingleFace(f, outcome)
    \/ \E f \in FaceAuths : unmountFaceAuth(f)

SpecFaceAuth == InitFaceAuth /\ [][NextFaceAuth]_vars

(***************************************************************************)
(* The poll page (component PollPage) of poll "p1" on the device "d1".     *)
(* Its state is kept in calls under the key "page": the useState values,   *)
(* the last value the hasVoted subscription delivered, the pending timer   *)
(* of "Vote Again" and the submitVote invocations that have not finished.  *)
(* An invocation s that has reached its backend call is the call calls[s]. *)
(***************************************************************************)
Submissions == {"s1", "s2"}

PageInit ==
    [fingerprint |-> Null, selectedOption |-> Null, isVoting |-> FALSE,
     turnstileToken |-> Null, showFaceAuth |-> FALSE, view |-> "form",
     hasVoted |-> Null, initialViewSet |-> FALSE, timer |-> FALSE,
     submits |-> <<>>]

Page == calls["page"]

\* the page is past its loading skeleton: poll, results and fingerprint known
Ready == Mounted("page") /\ "p1" \in DOMAIN polls /\ Page.fingerprint # Null

\* {showFaceAuth && <FaceAuth/>} of the form view
ShowsFaceAuth(pg) == pg.showFaceAuth /\ pg.view = "form"

MountedFaceAuths(cs) == {f \in FaceAuths \cap DOMAIN cs : cs[f].mounted}

\* the keys a new FaceAuth instance can take: unused ones and those of
\* unmounted instances with no captureCtx running
FreeFaceAuths(cs) ==
    {f \in FaceAuths : f \notin DOMAIN cs \/ (~cs[f].mounted /\ cs[f].capture = "idle")}

\* the client state cs after React has rendered the page again
Render(cs) ==
    IF ShowsFaceAuth(cs["page"])
    THEN IF MountedFaceAuths(cs) # {} THEN cs
         ELSE ((CHOOSE f \in FreeFaceAuths(cs) : TRUE) :> FaceAuthInit) @@ cs
    ELSE [x \in DOMAIN cs |->
             IF x \in MountedFaceAuths(cs) THEN Unmounted(cs[x]) ELSE cs[x]]

Renderable(cs) ==
    ShowsFaceAuth(cs["page"]) /\ MountedFaceAuths(cs) = {} => FreeFaceAuths(cs) # {}

\* the page state becomes pg and the page renders
SetPage(pg) ==
    /\ Renderable([calls EXCEPT !["page"] = pg])
    /\ calls' = Render([calls EXCEPT !["page"] = pg])
    /\ UNCHANGED <<polls, votes, now, secretKey>>

\* useEffect: getFingerprint().then(setFingerprint)
getFingerprint(fp) ==
    /\ Mounted("page") /\ Page.fingerprint = Null
    /\ SetPage([Page EXCEPT !.fingerprint = <<fp>>])

\* the initial view effect, lines 321-329, on the page state pg
InitialView(pg) ==
    IF ~pg.initialViewSet /\ pg.hasVoted # Null /\ "p1" \in DOMAIN polls
    THEN [pg EXCEPT !.initialViewSet = TRUE,
                    !.view = IF pg.hasVoted[1] /\ ~polls["p1"].settings.allowMultipleVotes
                             THEN "results" ELSE @]
    ELSE pg

\* the subscription useQuery(api.votes.hasVoted) delivers the current value;
\* the effect on [hasVoted, poll, initialViewSet] runs with it
hasVotedResult ==
    /\ Ready
    /\ Page.hasVoted # <<hasVoted("p1", Page.fingerprint[1])>>
    /\ SetPage(InitialView([Page EXCEPT
                               !.hasVoted = <<hasVoted("p1", Page.fingerprint[1])>>]))

\* click on an option of the form
setSelectedOption(index) ==
    /\ Ready /\ Page.view = "form"
    /\ SetPage([Page EXCEPT !.selectedOption = <<index>>])

\* the submit button reacting to every press
SubmitEnabled_IgnoresVoting(pg) ==
    ~(pg.selectedOption = Null)

\* the submit button: disabled={selectedOption === null || isVoting}
SubmitEnabled(pg) ==
    ~(pg.selectedOption = Null \/ pg.isVoting)

FreeSubmissions(cs) ==
    {s \in Submissions : s \notin DOMAIN cs /\ s \notin DOMAIN cs["page"].submits}

\* submitVote up to its first await: the page state with a new invocation,
\* which holds the descriptor and the selected option it was called with
Submitting(cs, faceDescriptor) ==
    LET pg == cs["page"]
        s == CHOOSE x \in FreeSubmissions(cs) : TRUE
    IN  [pg EXCEPT !.isVoting = TRUE, !.showFaceAuth = FALSE,
                   !.submits = (s :> [stage |-> "ip", faceDescriptor |-> faceDescriptor,
                                      optionIndex |-> pg.selectedOption,
                                      ipAddress |-> Null]) @@ @]

\* click on the submit button
handleVote ==
    /\ Ready /\ Page.view = "form"
    /\ SubmitEnabled(Page)
    /\ IF ~polls["p1"].settings.allowMultipleVotes
       THEN SetPage([Page EXCEPT !.showFaceAuth = TRUE])
       ELSE /\ FreeSubmissions(calls) # {}
            /\ SetPage(Submitting(calls, Null))

\* click on "View Results without voting"
viewResults ==
    /\ Ready /\ Page.view = "form"
    /\ SetPage([Page EXCEPT !.view = "results"])

\* click on "Cast Vote" / "Vote Again" of the results view: a timer of 500 ms
onVoteAgain ==
    /\ Ready /\ Page.view = "results"
    /\ polls["p1"].settings.allowMultipleVotes \/ Page.hasVoted \in {Null, <<FALSE>>}
    /\ ~Page.timer
    /\ SetPage([Page EXCEPT !.timer = TRUE])

\* the timer of onVoteAgain fires
voteAgainTimeout ==
    /\ Mounted("page") /\ Page.timer
    /\ SetPage([Page EXCEPT !.timer = FALSE, !.view = "form"])

\* click on Cancel, or on Close of the error view, of the FaceAuth shown
onCancel(f) ==
    /\ Mounted("page") /\ IsMounted(f)
    /\ calls[f].error # Null \/ ~calls[f].capturing
    /\ SetPage([Page EXCEPT !.showFaceAuth = FALSE])

\* the detection of an instance shown by the page settles; a descriptor goes
\* to onFaceDetected, which is submitVote(descriptor)
onFaceDetected(f, outcome, descriptor) ==
    /\ Mounted("page")
    /\ f \in DOMAIN calls /\ calls[f].capture = "detecting"
    /\ calls[f].delivered < MaxDeliveries
    /\ LET c == AfterDetection(calls[f], outcome)
           cs == [calls EXCEPT ![f] = c]
       IN  IF c.delivered = calls[f].delivered
           THEN calls' = cs
           ELSE /\ FreeSubmissions(cs) # {}
                /\ calls' = Render([cs EXCEPT !["page"] = Submitting(cs, <<descriptor>>)])
    /\ UNCHANGED <<polls, votes, now, secretKey>>

\* submitVote: the ipify request settles and ipAddress is chosen
fetchIp(s, ip) ==
    /\ Mounted("page") /\ s \in DOMAIN Page.submits
    /\ Page.submits[s].stage = "ip"
    /\ SetPage([Page EXCEPT !.submits[s].stage = "call", !.submits[s].ipAddress = ip])

\* the arguments submitVote passes to castVote or castVoteWithFace
SubmitArgs(pg, sub) ==
    Args("p1", sub.optionIndex[1], pg.fingerprint[1], sub.ipAddress,
         IF pg.turnstileToken = Null THEN Undefined ELSE pg.turnstileToken,
         IF sub.faceDescriptor = Null THEN <<>> ELSE sub.faceDescriptor[1])

\* submitVote: await castVoteWithFace(...) or await castVote(...)
callBackend(s, outcome) ==
    /\ Mounted("page") /\ s \in DOMAIN Page.submits
    /\ Page.submits[s].stage = "call"
    /\ IF Page.submits[s].faceDescriptor # Null
       THEN CallCastWithFace(s, SubmitArgs(Page, Page.submits[s]))
       ELSE CallCast(s, SubmitArgs(Page, Page.submits[s]), outcome)

\* the finally block leaving isVoting as it is
Settled_KeepsVoting(pg, s, ok) ==
    LET rest == [x \in DOMAIN pg.submits \ {s} |-> pg.submits[x]]
    IN  IF ok
        THEN [pg EXCEPT !.view = "results", !.selectedOption = Null, !.submits = rest]
        ELSE [pg EXCEPT !.submits = rest]

\* submitVote after its backend call: the lines after the await, or the
\* catch, and then the finally block
Settled(pg, s, ok) ==
    LET rest == [x \in DOMAIN pg.submits \ {s} |-> pg.submits[x]]
    IN  IF ok
        THEN [pg EXCEPT !.view = "results", !.selectedOption = Null,
                        !.isVoting = FALSE, !.submits = rest]
        ELSE [pg EXCEPT !.isVoting = FALSE, !.submits = rest]

\* the backend call of invocation s resolves or rejects
settle(s) ==
    /\ Mounted("page") /\ s \in DOMAIN Page.submits
    /\ s \in DOMAIN calls /\ calls[s].pc = "done"
    /\ LET cs == [x \in DOMAIN calls \ {s} |->
                     IF x = "page" THEN Settled(Page, s, calls[s].result.ok)
                     ELSE calls[x]]
       IN  Renderable(cs) /\ calls' = Render(cs)
    /\ UNCHANGED <<polls, votes, now, secretKey>>

PageDomain ==
    [settings |-> {Settings(am, 2, FALSE, Undefined) : am \in BOOLEAN},
     fingerprints |-> {"d1"},
     optionIndexes |-> {0},
     ips |-> {"n1"},
     descriptors |-> {FaceA}]

InitPage ==
    /\ polls = <<>>
    /\ votes = <<>>
    /\ now = 1
    /\ secretKey = FALSE
    /\ calls = ("page" :> PageInit)

NextPage ==
    \/ \E settings \in PageDomain.settings : create("p1", settings)
    \/ \E fp \in PageDomain.fingerprints : getFingerprint(fp)
    \/ hasVotedResult
    \/ \E index \in PageDomain.optionIndexes : setSelectedOption(index)
    \/ handleVote
    \/ viewResults
    \/ onVoteAgain
    \/ voteAgainTimeout
    \/ \E f \in FaceAuths : onCancel(f)
    \/ \E f \in FaceAuths, ok \in BOOLEAN : importFaceApi(f, ok)
    \/ \E f \in FaceAuths, ok \in BOOLEAN : loadFromUri(f, ok)
    \/ \E f \in FaceAuths : effectModelsLoaded(f)
    \/ \E f \in FaceAuths, ok \in BOOLEAN : getUserMedia(f, ok)
    \/ \E f \in FaceAuths : onloadedmetadata(f)
    \/ \E f \in FaceAuths : captureCtx(f)
    \/ \E f \in FaceAuths, outcome \in DetectionOutcomes, d \in PageDomain.descriptors :
          onFaceDetected(f, outcome, d)
    \/ \E s \in Submissions, ip \in PageDomain.ips : fetchIp(s, ip)
    \/ \E s \in Submissions : callBackend(s, "success:true")
    \/ \E s \in Submissions : FaceVerify(s, "success:true")
    \/ \E s \in Submissions : FaceSearch(s)
    \/ \E s \in Submissions : FaceRecord(s)
    \/ \E s \in Submissions : settle(s)

SpecPage == InitPage /\ [][NextPage]_vars

(***************************************************************************)
(* Vocabulary of the properties.                                           *)
(***************************************************************************)
\* session s gets its answer on this step; its request is calls'[s].args
Decided(s) ==
    /\ s \in DOMAIN calls'
    /\ calls'[s].pc = "done"
    /\ (s \notin DOMAIN calls \/ calls[s].pc # "done")

Done(s) == s \in DOMAIN calls /\ calls[s].pc = "done"

Sessions == {"s1", "s2"}

SingleVote(p) == p \in DOMAIN polls /\ ~polls[p].settings.allowMultipleVotes

\* the per-network limit as the specification defines it
EffectiveLimit(poll) ==
    IF poll.settings.maxVotesPerIP >= 1 THEN poll.settings.maxVotesPerIP
    ELSE DefaultMaxVotes

VotesInWindow(p, ip, from, to) ==
    {i \in DOMAIN votes :
        /\ votes[i].pollId = p
        /\ votes[i].ipHash = ip
        /\ from <= votes[i].timestamp
        /\ votes[i].timestamp <= to}

(***************************************************************************)
(* C1: on a poll with allowMultipleVotes = false at most one vote is       *)
(* committed per (poll, fingerprint), whatever the interleaving of cast    *)
(* and castWithFace calls; and a submission to such a poll that passes     *)
(* every other check is accepted exactly when no vote of its fingerprint   *)
(* is committed yet and is rejected as a device duplicate otherwise, so    *)
(* of two racing submissions one is accepted and one is a duplicate.       *)
(***************************************************************************)
AtMostOneVotePerIdentity ==
    \A i, j \in DOMAIN votes :
        /\ SingleVote(votes[i].pollId)
        /\ votes[i].pollId = votes[j].pollId
        /\ votes[i].voterFingerprint = votes[j].voterFingerprint
        => i = j

FirstWinsRestDuplicate ==
    \A s \in Sessions :
        /\ Decided(s)
        /\ SingleVote(calls'[s].args.pollId)
        /\ calls'[s].result \in {Ok, Throw(AlreadyVotedDevice)}
        => (calls'[s].result.ok <=>
                ~hasUserVoted(votes, calls'[s].args.pollId,
                              calls'[s].args.voterFingerprint))

C1_OneVotePerIdentity == []AtMostOneVotePerIdentity /\ [][FirstWinsRestDuplicate]_vars

\* two castWithFace calls with the same fingerprint and the same face both
\* passed the vector search; one was accepted, the other is a device duplicate
C1_Witness ==
    /\ Done("s1") /\ Done("s2")
    /\ SingleVote(calls["s1"].args.pollId)
    /\ calls["s1"].fn = "castWithFace" /\ calls["s2"].fn = "castWithFace"
    /\ calls["s1"].args = calls["s2"].args
    /\ calls["s1"].result = Ok
    /\ calls["s2"].result = Throw(AlreadyVotedDevice)
    /\ Len(votes) = 1

(***************************************************************************)
(* C2: for every poll, network identity and instant t, the committed votes *)
(* of that (poll, network) with a timestamp in [t - 1h, t] number at most  *)
(* the poll's effective per-network limit, whatever the interleaving.      *)
(***************************************************************************)
C2_RateLimitNeverOvershot ==
    \A k \in DOMAIN votes :
        \A t \in {votes[k].timestamp, votes[k].timestamp + WindowMs} :
            votes[k].pollId \in DOMAIN polls =>
                Cardinality(VotesInWindow(votes[k].pollId, votes[k].ipHash,
                                          t - WindowMs, t))
                    <= EffectiveLimit(polls[votes[k].pollId])

\* two identical castWithFace calls raced on a poll with limit 1: one vote
C2_Witness ==
    /\ Done("s1") /\ Done("s2")
    /\ calls["s1"].fn = "castWithFace" /\ calls["s2"].fn = "castWithFace"
    /\ calls["s1"].args = calls["s2"].args
    /\ calls["s1"].args.pollId \in DOMAIN polls
    /\ polls[calls["s1"].args.pollId].settings.allowMultipleVotes
    /\ polls[calls["s1"].args.pollId].settings.maxVotesPerIP = 1
    /\ calls["s1"].result = Ok
    /\ IsRateLimit(calls["s2"].result)
    /\ Len(votes) = 1

(***************************************************************************)
(* C3: no two committed votes of one poll carry descriptors whose          *)
(* similarity exceeds 0.95.                                                *)
(***************************************************************************)
C3_NoTwoSimilarDescriptors ==
    \A i, j \in DOMAIN votes :
        /\ i # j
        /\ votes[i].pollId = votes[j].pollId
        /\ votes[i].embedding # <<>>
        /\ votes[j].embedding # <<>>
        => ~ScoreAbove(votes[i].embedding, votes[j].embedding,
                       ThresholdNum, ThresholdDen)

(***************************************************************************)
(* C4: with N the poll's effective per-network limit, a submission made    *)
(* while N votes of its network lie within the trailing hour is rejected   *)
(* as rate-limited and writes nothing; a submission made when N or more    *)
(* votes of its network exist and all of them are older than one hour is   *)
(* accepted.  Both for submissions that pass the other checks.             *)
(***************************************************************************)
RecentCount(p, ip) == Cardinality(VotesInWindow(p, ip, now - WindowMs, now))

TotalCount(p, ip) ==
    Cardinality({i \in DOMAIN votes : votes[i].pollId = p /\ votes[i].ipHash = ip})

\* the request session s gets its answer to on this step passes verification,
\* lifecycle, device-duplicate and biometric checks
OtherChecksPass(s) ==
    LET c == calls'[s]
        a == c.args
    IN  /\ a.pollId \in DOMAIN polls
        /\ c.siteverify \in {"not called", "success:true"}
        /\ \/ polls[a.pollId].settings.closeAt = Undefined
           \/ now <= polls[a.pollId].settings.closeAt[1]
        /\ \/ polls[a.pollId].settings.allowMultipleVotes
           \/ \A i \in DOMAIN votes :
                 votes[i].pollId = a.pollId => votes[i].voterFingerprint # a.voterFingerprint
        /\ c.fn = "castWithFace" => (s \in DOMAIN calls /\ calls[s].pc = "record")

RateLimitedThenReadmitted ==
    \A s \in Sessions :
        Decided(s) /\ OtherChecksPass(s) =>
            LET a == calls'[s].args
                N == EffectiveLimit(polls[a.pollId])
            IN  /\ RecentCount(a.pollId, a.ipAddress) >= N
                   => IsRateLimit(calls'[s].result) /\ votes' = votes
                /\ (TotalCount(a.pollId, a.ipAddress) >= N
                        /\ RecentCount(a.pollId, a.ipAddress) = 0)
                   => calls'[s].result.ok /\ Len(votes') = Len(votes) + 1

C4_RateLimitThenWindow == [][RateLimitedThenReadmitted]_vars

\* the limit of 2 was reached within one hour, both votes aged out, and the
\* next submission of that network was accepted
C4_Witness ==
    /\ Done("s1") /\ calls["s1"].result = Ok
    /\ Len(votes) = 3
    /\ polls["p1"].settings.maxVotesPerIP = 2
    /\ \A i \in DOMAIN votes : votes[i].ipHash = calls["s1"].args.ipAddress
    /\ votes[1].timestamp = votes[2].timestamp
    /\ votes[2].timestamp + WindowMs < votes[3].timestamp

(***************************************************************************)
(* The checks of the pipeline as conditions on the request of a call c and *)
(* on the database at the step that runs them.                             *)
(***************************************************************************)
\* session s takes a step of its call on this transition
Stepped(s) ==
    /\ s \in DOMAIN calls'
    /\ (s \notin DOMAIN calls \/ calls'[s] # calls[s])

\* where the call of s stands before the step
Stage(s) == IF s \in DOMAIN calls THEN calls[s].pc ELSE "call"

VerificationFails(c) ==
    /\ c.args.token \notin {Undefined, <<"">>}
    /\ secretKey
    /\ c.siteverify \in {"success:false", "throws"}

VerificationError(c) ==
    IF c.siteverify = "throws" THEN FetchFailed ELSE BotVerificationFailed

PollMissing(a) == a.pollId \notin DOMAIN polls

\* closeAt is set and has passed
PollClosed(a) ==
    /\ a.pollId \in DOMAIN polls
    /\ polls[a.pollId].settings.closeAt # Undefined
    /\ now > polls[a.pollId].settings.closeAt[1]

\* closeAt is set, is not 0, and has passed
PollClosedNonZero(a) == PollClosed(a) /\ polls[a.pollId].settings.closeAt # <<0>>

DeviceDuplicate(a) ==
    /\ SingleVote(a.pollId)
    /\ \E i \in DOMAIN votes :
          /\ votes[i].pollId = a.pollId
          /\ votes[i].voterFingerprint = a.voterFingerprint

OverLimit(a) ==
    /\ a.pollId \in DOMAIN polls
    /\ RecentCount(a.pollId, a.ipAddress) >= EffectiveLimit(polls[a.pollId])

\* the votes of the network in the trailing hour number maxVotesPerIP || 3
\* or more
OverCodeLimit(a) ==
    /\ a.pollId \in DOMAIN polls
    /\ LET mx == polls[a.pollId].settings.maxVotesPerIP IN
       RecentCount(a.pollId, a.ipAddress) >= IF mx = 0 THEN DefaultMaxVotes ELSE mx

FaceDuplicate(a) ==
    \E i \in DOMAIN votes :
        /\ votes[i].pollId = a.pollId
        /\ votes[i].embedding # <<>>
        /\ a.embedding # <<>>
        /\ ScoreAbove(a.embedding, votes[i].embedding, ThresholdNum, ThresholdDen)

RateLimitErrorOf(fn) == IF fn = "cast" THEN RateLimitCast ELSE RateLimitRecord

\* the error of the first failing check among existence, closed, device
\* duplicate, rate limit; "" when all four pass
AdmitReason(a, fn) ==
    IF PollMissing(a) THEN PollNotFound
    ELSE IF PollClosedNonZero(a) THEN PollIsClosed
    ELSE IF DeviceDuplicate(a) THEN AlreadyVotedDevice
    ELSE IF OverCodeLimit(a) THEN RateLimitErrorOf(fn)
    ELSE ""

(***************************************************************************)
(* C5 as stated: a submission is rejected with the reason of the earliest  *)
(* failing check in the order existence, closed, human verification,       *)
(* device duplicate, rate limit, biometric near-duplicate.                 *)
(***************************************************************************)
SpecOrderReason(c) ==
    IF PollMissing(c.args) THEN PollNotFound
    ELSE IF PollClosed(c.args) THEN PollIsClosed
    ELSE IF VerificationFails(c) THEN VerificationError(c)
    ELSE IF DeviceDuplicate(c.args) THEN AlreadyVotedDevice
    ELSE IF OverLimit(c.args) THEN RateLimitErrorOf(c.fn)
    ELSE IF FaceDuplicate(c.args) THEN AlreadyVotedFace
    ELSE ""

C5_SpecOrder ==
    [][\A s \in Sessions :
          Decided(s) /\ ~calls'[s].result.ok
              => calls'[s].result.error = SpecOrderReason(calls'[s])]_vars

(***************************************************************************)
(* C5 as amended: the reason is that of the earliest failing check in the  *)
(* order the code runs them, each check evaluated at the step that runs    *)
(* it.  cast: human verification, existence, closed, device duplicate,     *)
(* rate limit.  castWithFace: human verification, biometric                *)
(* near-duplicate, then in recordVote existence, closed, device duplicate, *)
(* rate limit.  A failing check always rejects, and a submission is        *)
(* accepted exactly when none fails.  The checks are those the code makes: *)
(* closed is closeAt set, not 0 and passed; the rate limit is the count of *)
(* the network's votes in the trailing hour reaching maxVotesPerIP || 3.   *)
(***************************************************************************)
CodeOrder(s) ==
    LET c == calls'[s] IN
    IF c.fn = "cast"
    THEN /\ Decided(s)
         /\ c.result.error = IF VerificationFails(c) THEN VerificationError(c)
                             ELSE AdmitReason(c.args, c.fn)
    ELSE CASE Stage(s) = "call" -> c.pc = "verify"
           [] Stage(s) = "verify" ->
                IF VerificationFails(c)
                THEN Decided(s) /\ c.result.error = VerificationError(c)
                ELSE c.pc = "search"
           [] Stage(s) = "search" ->
                IF FaceDuplicate(c.args)
                THEN Decided(s) /\ c.result.error = AlreadyVotedFace
                ELSE c.pc = "record"
           [] Stage(s) = "record" ->
                Decided(s) /\ c.result.error = AdmitReason(c.args, c.fn)
           [] OTHER -> FALSE

C5_CodeOrder ==
    [][\A s \in Sessions :
          Stepped(s) => CodeOrder(s) /\ (calls'[s].result.ok <=> votes' # votes)]_vars

\* a castWithFace submission failing the biometric, the device-duplicate and
\* the rate-limit check was rejected with the biometric reason
C5_Witness ==
    /\ Done("s1")
    /\ calls["s1"].fn = "castWithFace"
    /\ FaceDuplicate(calls["s1"].args)
    /\ DeviceDuplicate(calls["s1"].args)
    /\ OverLimit(calls["s1"].args)
    /\ calls["s1"].result = Throw(AlreadyVotedFace)

(***************************************************************************)
(* C6: a submission naming a poll that does not exist, or a poll whose     *)
(* closeAt is set and has passed, is rejected and writes no vote; unless   *)
(* an earlier check of the code (verification, biometric) rejects it, the  *)
(* reason is poll-not-found, respectively poll-closed.                     *)
(***************************************************************************)
RejectedEarlier(c) ==
    c.result.error \in {BotVerificationFailed, FetchFailed, AlreadyVotedFace}

C6_LifecycleGate ==
    [][\A s \in Sessions :
          Decided(s) =>
              LET c == calls'[s] IN
              /\ PollMissing(c.args) =>
                    /\ votes' = votes
                    /\ (c.result.error = PollNotFound \/ RejectedEarlier(c))
              /\ PollClosed(c.args) =>
                    /\ votes' = votes
                    /\ (c.result.error = PollIsClosed \/ RejectedEarlier(c))]_vars

(***************************************************************************)
(* C7: a submission without a proof token to a poll with requireCaptcha =  *)
(* true is rejected and commits no vote.                                   *)
(***************************************************************************)
C7_CaptchaRequired ==
    [][\A s \in Sessions :
          /\ Decided(s)
          /\ calls'[s].args.pollId \in DOMAIN polls
          /\ polls[calls'[s].args.pollId].settings.requireCaptcha
          /\ calls'[s].args.token = Undefined
          => ~calls'[s].result.ok /\ votes' = votes]_vars

(***************************************************************************)
(* C8: when a proof token is supplied, the secret is configured and        *)
(* siteverify answers success = false, the submission is rejected with     *)
(* the bot-verification error and commits no vote, in cast and in          *)
(* castWithFace.                                                           *)
(***************************************************************************)
C8_VerificationFailed ==
    [][\A s \in Sessions :
          /\ Stepped(s)
          /\ Stage(s) \in {"call", "verify"}
          /\ (calls'[s].fn = "castWithFace" => Stage(s) = "verify")
          /\ calls'[s].args.token \notin {Undefined, <<"">>}
          /\ secretKey
          /\ calls'[s].siteverify = "success:false"
          => /\ Decided(s)
             /\ calls'[s].result = Throw(BotVerificationFailed)
             /\ votes' = votes]_vars

\* castWithFace was refused on siteverify's answer although the poll is open
\* and every other check would have passed
C8_Witness ==
    /\ Done("s1")
    /\ calls["s1"].fn = "castWithFace"
    /\ calls["s1"].siteverify = "success:false"
    /\ calls["s1"].result = Throw(BotVerificationFailed)
    /\ AdmitReason(calls["s1"].args, "castWithFace") = ""
    /\ ~FaceDuplicate(calls["s1"].args)

C10_FailOpenOnlyWithoutSecret ==
    \A s \in DOMAIN calls :
        /\ secretKey
        /\ calls[s].args.token \notin {Undefined, <<"">>}
        /\ (calls[s].result.ok \/ calls[s].pc \in {"search", "record"})
        => calls[s].siteverify = "success:true"

\* a vote was committed for a call whose token siteverify confirmed
C10_Witness ==
    /\ secretKey
    /\ Done("s1")
    /\ calls["s1"].args.token = <<"tok">>
    /\ calls["s1"].siteverify = "success:true"
    /\ calls["s1"].result = Ok
    /\ Len(votes) = 1

(***************************************************************************)
(* C11 as stated: a failure of the verification service itself is not      *)
(* fatal: on a poll that does not require verification, a submission whose *)
(* siteverify call throws goes on to the remaining checks (and is accepted *)
(* when they pass).                                                        *)
(***************************************************************************)
\* the step of s that runs the Turnstile check, its siteverify call made
VerifyStep(s) ==
    /\ Stepped(s)
    /\ IF calls'[s].fn = "cast" THEN Stage(s) = "call" ELSE Stage(s) = "verify"
    /\ calls'[s].siteverify # "not called"

C11_ServiceFailureNotFatal ==
    [][\A s \in Sessions :
          /\ VerifyStep(s)
          /\ calls'[s].siteverify = "throws"
          /\ calls'[s].args.pollId \in DOMAIN polls
          /\ ~polls[calls'[s].args.pollId].settings.requireCaptcha
          => IF calls'[s].fn = "cast"
             THEN calls'[s].result.error = AdmitReason(calls'[s].args, "cast")
             ELSE calls'[s].pc = "search"]_vars

(***************************************************************************)
(* C11 as amended: a failure of the verification service itself is fatal   *)
(* to the vote: when a token is supplied and the secret is configured, a   *)
(* siteverify call that throws ends the submission with the error thrown,  *)
(* no further check runs and no vote is written, whatever the poll's       *)
(* requireCaptcha, in cast and in castWithFace.                            *)
(***************************************************************************)
C11_ServiceFailureRejects ==
    [][\A s \in Sessions :
          VerifyStep(s) /\ calls'[s].siteverify = "throws"
          => /\ Decided(s)
             /\ calls'[s].result = Throw(FetchFailed)
             /\ votes' = votes]_vars

\* on a poll that does not require verification a submission passing every
\* other check was refused because siteverify threw
C11_Witness ==
    /\ Done("s1")
    /\ calls["s1"].siteverify = "throws"
    /\ calls["s1"].result = Throw(FetchFailed)
    /\ calls["s1"].args.pollId \in DOMAIN polls
    /\ ~polls[calls["s1"].args.pollId].settings.requireCaptcha
    /\ AdmitReason(calls["s1"].args, calls["s1"].fn) = ""
    /\ votes = <<>>

(***************************************************************************)
(* C12: the device-duplicate check is exact-match, per poll and            *)
(* conditional on the poll's configuration: a submission that reaches the  *)
(* check (verification passed, poll exists and is open; in castWithFace    *)
(* the face search passed) is rejected as a device duplicate exactly when  *)
(* the poll has allowMultipleVotes = false and a vote with the same        *)
(* fingerprint exists for the same poll.  A vote of that fingerprint on    *)
(* another poll never rejects, and with allowMultipleVotes = true nothing  *)
(* is rejected as a device duplicate.                                      *)
(***************************************************************************)
\* the step of s that runs the checks of cast, lines 89-138, or recordVote
AdmitStep(s) ==
    /\ Stepped(s)
    /\ IF calls'[s].fn = "cast"
       THEN Stage(s) = "call" /\ ~VerificationFails(calls'[s])
       ELSE Stage(s) = "record"

SameDeviceSamePoll(a) ==
    \E i \in DOMAIN votes :
        votes[i].pollId = a.pollId /\ votes[i].voterFingerprint = a.voterFingerprint

C12_DeviceDuplicateExact ==
    [][\A s \in Sessions :
          /\ AdmitStep(s)
          /\ ~PollMissing(calls'[s].args)
          /\ ~PollClosedNonZero(calls'[s].args)
          => LET a == calls'[s].args IN
             /\ calls'[s].result.error = AlreadyVotedDevice
                   <=> (~polls[a.pollId].settings.allowMultipleVotes
                            /\ SameDeviceSamePoll(a))
             /\ calls'[s].result.error = AlreadyVotedDevice => votes' = votes]_vars

\* device d1 voted on the single-vote polls p1 and p2, its vote on p1 not
\* standing in the way of its vote on p2, and its second vote on p2 was refused
C12_Witness ==
    /\ SingleVote("p1") /\ SingleVote("p2")
    /\ Len(votes) = 2
    /\ votes[1].pollId = "p1" /\ votes[2].pollId = "p2"
    /\ votes[1].voterFingerprint = "d1" /\ votes[2].voterFingerprint = "d1"
    /\ Done("s1")
    /\ calls["s1"].args.pollId = "p2"
    /\ calls["s1"].args.voterFingerprint = "d1"
    /\ calls["s1"].result = Throw(AlreadyVotedDevice)

(***************************************************************************)
(* C13: the effective per-network limit is maxVotesPerIP when that is at   *)
(* least 1, and 3 when it is zero or negative: a submission that reaches   *)
(* the rate-limit check (verification passed, poll exists and is open, no  *)
(* device duplicate; in castWithFace the face search passed) is rejected   *)
(* as rate-limited exactly when the votes of its network on the poll in    *)
(* the trailing hour number that limit or more; so a poll configured with  *)
(* a zero or negative limit admits up to 3 votes per network per hour.     *)
(***************************************************************************)
C13_EffectiveLimit ==
    [][\A s \in Sessions :
          /\ AdmitStep(s)
          /\ ~PollMissing(calls'[s].args)
          /\ ~PollClosedNonZero(calls'[s].args)
          /\ ~DeviceDuplicate(calls'[s].args)
          => (IsRateLimit(calls'[s].result) <=> OverLimit(calls'[s].args))]_vars

(***************************************************************************)
(* C14: when a descriptor is supplied, the biometric check rejects exactly *)
(* when a committed descriptor of the same poll (hence the nearest one)    *)
(* has cosine similarity strictly greater than 0.95 to it; otherwise the   *)
(* call goes on to recordVote.  Against a poll holding only FaceA, the     *)
(* descriptor at similarity 0.97 is rejected and those at 0.80 and at      *)
(* exactly 0.95 pass.                                                      *)
(***************************************************************************)
\* the step of s that runs the vector search of castWithFace
SearchStep(s) == Stepped(s) /\ Stage(s) = "search"

\* the descriptors committed for poll p
Descriptors(p) ==
    {votes[i].embedding : i \in {j \in DOMAIN votes :
                                    votes[j].pollId = p /\ votes[j].embedding # <<>>}}

C14_BiometricThreshold ==
    [][\A s \in Sessions :
          SearchStep(s) =>
              LET c == calls'[s]
                  rejected == Decided(s) /\ c.result = Throw(AlreadyVotedFace)
                  passed == c.pc = "record" /\ c.result = Pending
              IN  /\ votes' = votes
                  /\ rejected \/ passed
                  /\ rejected <=> FaceDuplicate(c.args)
                  /\ Descriptors(c.args.pollId) = {FaceA} =>
                        /\ c.args.embedding = FaceNear => rejected
                        /\ c.args.embedding \in {FaceFar, FaceEdge} => passed]_vars

\* after FaceA, the faces at similarity 0.80 and at exactly 0.95 were accepted
\* and the face at 0.97 was refused
C14_Witness ==
    /\ Len(votes) = 3
    /\ votes[1].embedding = FaceA
    /\ {votes[2].embedding, votes[3].embedding} = {FaceFar, FaceEdge}
    /\ Done("s1")
    /\ calls["s1"].args.embedding = FaceNear
    /\ calls["s1"].result = Throw(AlreadyVotedFace)

(***************************************************************************)
(* C15: the similarity query is scoped to one poll: the neighbour it       *)
(* returns is a vote of the poll submitted to, so a biometric rejection is *)
(* always due to a descriptor committed in the same poll and a descriptor  *)
(* committed in another poll rejects nothing; when the poll has no         *)
(* committed descriptor the query returns no neighbour and the check       *)
(* passes without error.                                                   *)
(***************************************************************************)
C15_SearchScopedToPoll ==
    [][\A s \in Sessions :
          SearchStep(s) =>
              LET c == calls'[s]
                  similarVotes == vectorSearch(votes, c.args.embedding, c.args.pollId)
              IN  /\ \A k \in DOMAIN similarVotes :
                        votes[similarVotes[k]].pollId = c.args.pollId
                  /\ c.result = Throw(AlreadyVotedFace) => FaceDuplicate(c.args)
                  /\ Descriptors(c.args.pollId) = {} =>
                        /\ similarVotes = <<>>
                        /\ c.pc = "record" /\ c.result = Pending]_vars

\* FaceA is committed in p1, and a face at similarity 0.97 to it was then
\* accepted in p2, which held no descriptor
C15_Witness ==
    /\ Len(votes) = 2
    /\ votes[1].pollId = "p1" /\ votes[1].embedding = FaceA
    /\ votes[2].pollId = "p2" /\ votes[2].embedding = FaceNear
    /\ Done("s1")
    /\ calls["s1"].args.pollId = "p2"
    /\ calls["s1"].args.embedding = FaceNear
    /\ calls["s1"].result = Ok

(***************************************************************************)
(* C16: the descriptor of an accepted castWithFace submission is stored in *)
(* the vote the same transaction inserts, and a similarity query sees      *)
(* exactly the descriptors of the votes committed when it runs: every      *)
(* committed descriptor of the poll is a candidate (the neighbour returned *)
(* is at least as similar as each of them), and a descriptor not yet       *)
(* committed is never the cause of a rejection.  So a submission whose     *)
(* search runs after the commit of a descriptor more than 0.95 similar is  *)
(* rejected.                                                               *)
(***************************************************************************)
\* the step of s that runs recordVote
RecordStep(s) == Stepped(s) /\ Stage(s) = "record"

C17_BiometricAdditive ==
    [][\A s \in Sessions :
          /\ Stepped(s)
          /\ calls'[s].fn = "castWithFace"
          /\ calls'[s].result.ok
          => /\ Stage(s) = "record"
             /\ ~DeviceDuplicate(calls'[s].args)
             /\ ~OverLimit(calls'[s].args)
             /\ Len(votes') = Len(votes) + 1]_vars

\* two castWithFace submissions passed the face search and were refused at
\* the insert, one as a device duplicate, one as rate-limited
C17_Witness ==
    /\ Len(votes) = 1 /\ votes[1].embedding = <<>>
    /\ Done("s1") /\ Done("s2")
    /\ calls["s1"].fn = "castWithFace" /\ calls["s2"].fn = "castWithFace"
    /\ calls["s1"].result = Throw(AlreadyVotedDevice)
    /\ calls["s2"].result = Throw(RateLimitRecord)

(***************************************************************************)
(* C18: in every reachable state the optionIndex of every committed vote   *)
(* lies within [0, number of options of its poll), and a submission with   *)
(* an optionIndex outside that range is rejected and writes no vote.       *)
(***************************************************************************)
InRange(pollId, optionIndex) ==
    optionIndex \in 0 .. (Len(polls[pollId].options) - 1)

OptionIndexesInRange ==
    \A i \in DOMAIN votes :
        votes[i].pollId \in DOMAIN polls => InRange(votes[i].pollId, votes[i].optionIndex)

OutOfRangeRejected ==
    \A s \in Sessions :
        /\ Decided(s)
        /\ calls'[s].args.pollId \in DOMAIN polls
        /\ ~InRange(calls'[s].args.pollId, calls'[s].args.optionIndex)
        => ~calls'[s].result.ok /\ votes' = votes

C18_OptionIndexInRange == []OptionIndexesInRange /\ [][OutOfRangeRejected]_vars

(***************************************************************************)
(* C19: results reflect exactly the committed votes: a step that accepts a *)
(* submission to a poll raises getResults(poll).totalVotes by exactly 1    *)
(* and the count of the option chosen by exactly 1, leaving the other      *)
(* options' counts and the other polls' results as they were; no other     *)
(* step changes the results of an existing poll.  Hence totalVotes is the  *)
(* number of accepted submissions to the poll.                             *)
(***************************************************************************)
\* the counts of results r with the option at optionIndex raised by one
Raised(r, optionIndex) ==
    [k \in DOMAIN r.options |->
        r.options[k].votes + (IF k = optionIndex + 1 THEN 1 ELSE 0)]

Counts(r) == [k \in DOMAIN r.options |-> r.options[k].votes]

AcceptedRaisesItsOption ==
    /\ \A s \in Sessions :
          Stepped(s) /\ calls'[s].result.ok =>
              \A p \in DOMAIN polls :
                  IF p = calls'[s].args.pollId
                  THEN /\ getResults(p)'.totalVotes = getResults(p).totalVotes + 1
                       /\ calls'[s].args.optionIndex + 1 \in DOMAIN getResults(p).options
                       /\ Counts(getResults(p)')
                             = Raised(getResults(p), calls'[s].args.optionIndex)
                  ELSE getResults(p)' = getResults(p)
    /\ (\A s \in Sessions : ~(Stepped(s) /\ calls'[s].result.ok))
          => \A p \in DOMAIN polls : getResults(p)' = getResults(p)

C19_ResultsReflectVotes == [][AcceptedRaisesItsOption]_vars

(***************************************************************************)
(* C20: whenever getResults reports totalVotes > 0, the percentages of the *)
(* options sum to 100, equivalently the counts of the options sum to       *)
(* totalVotes.  The percentages are the exact fractions count * 100 /      *)
(* totalVotes.                                                             *)
(***************************************************************************)
RECURSIVE SumVotes(_)
SumVotes(options) ==
    IF options = <<>> THEN 0 ELSE Head(options).votes + SumVotes(Tail(options))

\* the numerator of the sum of the percentages over their common denominator
RECURSIVE SumPercentageNum(_)
SumPercentageNum(options) ==
    IF options = <<>> THEN 0
    ELSE Head(options).percentage.num + SumPercentageNum(Tail(options))

C20_PercentagesSumTo100 ==
    \A p \in DOMAIN polls :
        LET r == getResults(p) IN
        r.totalVotes > 0 =>
            /\ \A k \in DOMAIN r.options : r.options[k].percentage.den = r.totalVotes
            /\ SumPercentageNum(r.options) = 100 * r.totalVotes
            /\ SumVotes(r.options) = r.totalVotes

(***************************************************************************)
(* C21: for a poll with no committed votes getResults returns totalVotes   *)
(* = 0 and, for every option, count 0 and percentage 0 (the number 0, no   *)
(* division by zero).                                                      *)
(***************************************************************************)
NoVotes(p) == \A i \in DOMAIN votes : votes[i].pollId # p

C21_EmptyPollResults ==
    \A p \in DOMAIN polls :
        NoVotes(p) =>
            LET r == getResults(p) IN
            /\ r.totalVotes = 0
            /\ DOMAIN r.options = DOMAIN polls[p].options
            /\ \A k \in DOMAIN r.options :
                  /\ r.options[k].votes = 0
                  /\ r.options[k].percentage = [num |-> 0, den |-> 1]

\* p2 has no votes while p1 has some
C21_Witness ==
    /\ DOMAIN polls = {"p1", "p2"}
    /\ NoVotes("p2")
    /\ getResults("p2").totalVotes = 0
    /\ getResults("p1").totalVotes = 2

(***************************************************************************)
(* C22: getResults is a pure read: the step that runs it changes neither   *)
(* the polls nor the votes and returns the results of the tables as they   *)
(* stand, and two calls for the same existing poll with no vote committed  *)
(* in between return identical output.                                     *)
(***************************************************************************)
\* reader r has the answer of a getResults call on an existing poll
HasResults(r) ==
    /\ r \in DOMAIN calls
    /\ calls[r].fn = "getResults"
    /\ calls[r].result # Null

GetResultsLeavesTables ==
    \A r \in Readers :
        Stepped(r) /\ calls'[r].fn = "getResults" => polls' = polls /\ votes' = votes

SameSnapshotSameResults ==
    \A r1, r2 \in Readers :
        /\ HasResults(r1) /\ HasResults(r2)
        /\ calls[r1].args = calls[r2].args
        /\ calls[r1].snapshot = calls[r2].snapshot
        => calls[r1].result = calls[r2].result

C22_GetResultsPureRead == []SameSnapshotSameResults /\ [][GetResultsLeavesTables]_vars

\* two reads of p1 with one vote committed, taken at different instants, and
\* a vote was committed after them
C22_Witness ==
    /\ HasResults("r1") /\ HasResults("r2")
    /\ calls["r1"].args.pollId = "p1" /\ calls["r2"].args.pollId = "p1"
    /\ calls["r1"].snapshot = 1 /\ calls["r2"].snapshot = 1
    /\ calls["r1"].result.totalVotes = 1
    /\ Len(votes) = 2
    /\ now = 2 /\ votes[1].timestamp = 1

(***************************************************************************)
(* C23: getResults returns exactly one entry per option of the poll, in    *)
(* the poll's own option order: entry i carries the label of option i and  *)
(* the number of committed votes of the poll with optionIndex = i,         *)
(* whatever the counts are.                                                *)
(***************************************************************************)
VotesFor(p, optionIndex) ==
    Cardinality({i \in DOMAIN votes :
                    votes[i].pollId = p /\ votes[i].optionIndex = optionIndex})

C23_ResultsInOptionOrder ==
    \A p \in DOMAIN polls :
        LET r == getResults(p) IN
        /\ Len(r.options) = Len(polls[p].options)
        /\ \A k \in 1 .. Len(polls[p].options) :
              /\ r.options[k].text = polls[p].options[k]
              /\ r.options[k].votes = VotesFor(p, k - 1)

\* option B has more votes than option A and is still listed second
C23_Witness ==
    /\ "p1" \in DOMAIN polls
    /\ getResults("p1").options[1].text = "A"
    /\ getResults("p1").options[1].votes = 1
    /\ getResults("p1").options[2].text = "B"
    /\ getResults("p1").options[2].votes = 2

(***************************************************************************)
(* C24: the has-voted probe returns true exactly when a committed vote     *)
(* exists for its (poll, fingerprint), the step that runs it changes       *)
(* neither polls nor votes, and it agrees with the duplicate check: on a   *)
(* poll with allowMultipleVotes = false, once a probe has answered true    *)
(* for (poll, f) no submission with fingerprint f to that poll is          *)
(* accepted.                                                               *)
(***************************************************************************)
\* reader r holds the answer of a hasVoted call
Probed(r) == r \in DOMAIN calls /\ calls[r].fn = "hasVoted"

ProbeIsExactRead ==
    \A r \in Readers :
        Stepped(r) /\ calls'[r].fn = "hasVoted" =>
            /\ polls' = polls /\ votes' = votes
            /\ calls'[r].result
                  <=> \E i \in DOMAIN votes :
                         /\ votes[i].pollId = calls'[r].args.pollId
                         /\ votes[i].voterFingerprint = calls'[r].args.fingerprint

NoAcceptAfterProbeTrue ==
    \A r \in Readers, s \in Sessions :
        /\ Probed(r) /\ calls[r].result
        /\ SingleVote(calls[r].args.pollId)
        /\ Stepped(s)
        /\ calls'[s].args.pollId = calls[r].args.pollId
        /\ calls'[s].args.voterFingerprint = calls[r].args.fingerprint
        => ~calls'[s].result.ok /\ votes' = votes

C24_HasVotedProbe == [][ProbeIsExactRead /\ NoAcceptAfterProbeTrue]_vars

\* the probe answered true for d1 and false for d2, and a later submission
\* of d1 was refused as a device duplicate
C24_Witness ==
    /\ Probed("r1") /\ calls["r1"].args.fingerprint = "d1" /\ calls["r1"].result
    /\ Probed("r2") /\ calls["r2"].args.fingerprint = "d2" /\ ~calls["r2"].result
    /\ Done("s1")
    /\ calls["s1"].args.voterFingerprint = "d1"
    /\ calls["s1"].result = Throw(AlreadyVotedDevice)
    /\ calls["r1"].snapshot = Len(votes)

(***************************************************************************)
(* C25: votes are immutable and never deleted: on every step the votes     *)
(* committed before it are all still committed after it, each with every   *)
(* field unchanged; the table only grows.                                  *)
(***************************************************************************)
VotesOnlyGrow ==
    /\ Len(votes') >= Len(votes)
    /\ \A i \in DOMAIN votes : votes'[i] = votes[i]

C25_VotesImmutable == [][VotesOnlyGrow]_vars

\* a device voted twice on a poll allowing multiple votes, an hour apart, and
\* its first vote stands as written
C25_Witness ==
    /\ Len(votes) = 2
    /\ votes[1].voterFingerprint = votes[2].voterFingerprint
    /\ votes[1].timestamp = 1
    /\ votes[2].timestamp = WindowMs + 1
    /\ votes[2].embedding # votes[1].embedding

(***************************************************************************)
(* C26: a vote is created only by the insert of an accepted submission and *)
(* the write is all-or-nothing: a step that changes the votes table is the *)
(* step on which exactly one submission is accepted, and it appends        *)
(* exactly one vote, that submission's; every step on which a submission   *)
(* is rejected, for whatever reason, in cast or in any step of             *)
(* castWithFace, leaves the table exactly as it was.                       *)
(***************************************************************************)
Accepted(s) == Stepped(s) /\ calls'[s].result.ok

SingleAtomicInsert ==
    /\ \A s \in Sessions :
          /\ Accepted(s) =>
                /\ Len(votes') = Len(votes) + 1
                /\ \A i \in DOMAIN votes : votes'[i] = votes[i]
                /\ votes'[Len(votes')].pollId = calls'[s].args.pollId
                /\ votes'[Len(votes')].optionIndex = calls'[s].args.optionIndex
                /\ votes'[Len(votes')].voterFingerprint = calls'[s].args.voterFingerprint
                /\ votes'[Len(votes')].ipHash = calls'[s].args.ipAddress
                /\ votes'[Len(votes')].timestamp = now
          /\ Decided(s) /\ ~calls'[s].result.ok => votes' = votes
    /\ votes' # votes => \E s \in Sessions : Accepted(s)

C26_AllOrNothingWrite == [][SingleAtomicInsert]_vars

\* with one vote committed, a castWithFace submission that passed the
\* Turnstile check and the face search was refused by recordVote and nothing
\* was written
C26_Witness ==
    /\ Len(votes) = 1
    /\ Done("s1")
    /\ calls["s1"].fn = "castWithFace"
    /\ calls["s1"].siteverify = "success:true"
    /\ IsRateLimit(calls["s1"].result)

(***************************************************************************)
(* C27: a transient storage or transaction-conflict error during the       *)
(* insert is retried by the pipeline: the step a submission takes after    *)
(* its insert failed (no call fails twice here, so it is its first         *)
(* failure) is another attempt, not the failure surfaced to the caller;    *)
(* and such an error is never reported as a duplicate vote.                *)
(***************************************************************************)
InsertErrorRetried ==
    \A s \in Sessions :
        Stepped(s) /\ Stage(s) = "insert failed" =>
            /\ calls'[s].pc # "done"
            /\ calls'[s].result.error \notin {AlreadyVotedDevice, AlreadyVotedFace}

C27_TransientErrorsRetried == [][InsertErrorRetried]_vars

(***************************************************************************)
(* C28: every submission eventually returns, accepted or rejected: the     *)
(* siteverify call is bounded by a timeout, so a call in flight does not   *)
(* stay pending forever when the service never answers.                    *)
(***************************************************************************)
InFlight(s) == s \in DOMAIN calls /\ calls[s].pc # "done"

C28_EverySubmissionReturns == \A s \in Sessions : InFlight(s) ~> ~InFlight(s)

(***************************************************************************)
(* C29: an accepted submission returns the identity of the newly inserted  *)
(* vote to the caller, in cast and in castWithFace.                        *)
(***************************************************************************)
C29_AcceptedReturnsVoteId ==
    [][\A s \in Sessions :
          Stepped(s) /\ calls'[s].result.ok =>
              /\ Len(votes') = Len(votes) + 1
              /\ Returned(calls'[s].result).accepted
              /\ Returned(calls'[s].result).voteId = VoteId(Len(votes'))]_vars

(***************************************************************************)
(* C30: the rate-limit window is recomputed at each decision as the last   *)
(* 3600000 ms up to now and is inclusive at its lower edge: the votes that *)
(* count are those of the poll and network whose age now - timestamp is at *)
(* most 3600000, so a vote exactly 3600000 ms old counts and one a         *)
(* millisecond older does not; the decision depends on the timestamps only *)
(* through these ages.  A submission that reaches the rate-limit check is  *)
(* rejected exactly when that count reaches maxVotesPerIP || 3.            *)
(***************************************************************************)
Age(i) == now - votes[i].timestamp

CountByAge(a) ==
    Cardinality({i \in DOMAIN votes :
                    /\ votes[i].pollId = a.pollId
                    /\ votes[i].ipHash = a.ipAddress
                    /\ Age(i) <= WindowMs})

SamePollSameNetwork(p, ip) ==
    {i \in DOMAIN votes :
        votes[i].pollId = p /\ votes[i].ipHash = ip /\ Age(i) <= WindowMs}

C31_RateLimitScope ==
    [][\A s \in Sessions :
          /\ AdmitStep(s)
          /\ ~PollMissing(calls'[s].args)
          /\ ~DeviceDuplicate(calls'[s].args)
          => LET a == calls'[s].args
                 limit == polls[a.pollId].settings.maxVotesPerIP
                 counted == SamePollSameNetwork(a.pollId, a.ipAddress)
             IN  /\ IsRateLimit(calls'[s].result) <=> Cardinality(counted) >= limit
                 /\ counted = {} => ~IsRateLimit(calls'[s].result)]_vars

\* with a limit of 1: the votes on p1 from n1, on p2 from n1 and on p1 from
\* n2 were all accepted, and another device on p1 from n1 was rate-limited
C31_Witness ==
    /\ Len(votes) = 3
    /\ \E i, j, k \in DOMAIN votes :
          /\ votes[i].pollId = "p1" /\ votes[i].ipHash = "n1"
          /\ votes[j].pollId = "p2" /\ votes[j].ipHash = "n1"
          /\ votes[k].pollId = "p1" /\ votes[k].ipHash = "n2"
          /\ Done("s1")
          /\ calls["s1"].args.pollId = "p1"
          /\ calls["s1"].args.ipAddress = "n1"
          /\ calls["s1"].args.voterFingerprint # votes[i].voterFingerprint
          /\ IsRateLimit(calls["s1"].result)

(***************************************************************************)
(* C32: in every reachable state no committed vote of a poll with closeAt  *)
(* set carries a timestamp later than closeAt, for every numeric closeAt   *)
(* (0 included).                                                           *)
(***************************************************************************)
C32_NoVoteAfterCloseAt ==
    \A i \in DOMAIN votes :
        LET closeAt == polls[votes[i].pollId].settings.closeAt
        IN  closeAt # Undefined => votes[i].timestamp <= closeAt[1]

(***************************************************************************)
(* C33: on a poll with allowMultipleVotes = false face verification is     *)
(* mandatory: every committed vote of such a poll carries a biometric      *)
(* descriptor, and every submission accepted on such a poll went through   *)
(* the near-duplicate search of castWithFace, whichever entry point was    *)
(* called.                                                                 *)
(***************************************************************************)
CarriesDescriptor(i) == votes[i].embedding # <<>>

AcceptedThroughFaceCheck ==
    \A s \in Sessions :
        Accepted(s) /\ SingleVote(calls'[s].args.pollId)
            => calls'[s].fn = "castWithFace" /\ RecordStep(s)

C33_FaceVerificationMandatory ==
    /\ [](\A i \in DOMAIN votes : SingleVote(votes[i].pollId) => CarriesDescriptor(i))
    /\ [][AcceptedThroughFaceCheck]_vars

(***************************************************************************)
(* C34: every poll in the poll store has between 2 and 10 option labels:   *)
(* the option list of the create-poll form stays within [2, 10] entries    *)
(* after any sequence of add, remove and edit actions, and no create       *)
(* stores a poll with fewer than 2 or more than 10 options.                *)
(***************************************************************************)
OptionCountInRange(options) == Len(options) >= 2 /\ Len(options) <= 10

FormOptionsInRange == Mounted("home") => OptionCountInRange(calls["home"].options)

C34_OptionCountWithinBounds ==
    /\ FormOptionsInRange
    /\ \A p \in DOMAIN polls : OptionCountInRange(polls[p].options)

(***************************************************************************)
(* C35: a face capture of a FaceAuth instance starts only in a state where *)
(* the models are loaded, the camera stream is active and no capture is in *)
(* progress; the camera is requested only after the models have loaded; a  *)
(* model-load or camera error puts the instance in its error state, which  *)
(* it never leaves and from which no capture starts.                       *)
(***************************************************************************)
Live(f) == f \in DOMAIN calls /\ f \in DOMAIN calls'

\* captureCtx of f runs on this step: a detection begins, or the paused
\* camera is reported
CaptureStarts(f) ==
    /\ Live(f)
    /\ \/ calls[f].capture = "idle" /\ calls'[f].capture = "detecting"
       \/ calls'[f].toast = ToastCameraNotActive /\ calls[f].toast # ToastCameraNotActive

CameraStarts(f) == Live(f) /\ calls[f].video = "none" /\ calls'[f].video = "requested"

LoadOrCameraFails(f) ==
    /\ Live(f)
    /\ \/ calls[f].load # "failed" /\ calls'[f].load = "failed"
       \/ calls[f].video # "denied" /\ calls'[f].video = "denied"

C35_CaptureOnlyWhenReady ==
    [][\A f \in FaceAuths :
          /\ CaptureStarts(f) =>
                /\ calls[f].mounted
                /\ calls[f].modelsLoaded /\ calls[f].load = "done"
                /\ calls[f].cameraActive /\ calls[f].video \in {"playing", "paused"}
                /\ ~calls[f].capturing /\ calls[f].capture = "idle"
                /\ calls[f].error = Null
          /\ CameraStarts(f) => calls[f].modelsLoaded /\ calls[f].load = "done"
          /\ LoadOrCameraFails(f) => calls'[f].error # Null
          /\ Live(f) /\ calls[f].error # Null =>
                calls'[f].error = calls[f].error /\ ~CaptureStarts(f)]_vars

\* a detection is running on one instance while another instance, whose
\* camera was denied, sits in its error state
C35_Witness ==
    \E f, g \in FaceAuths :
        /\ IsMounted(f) /\ calls[f].capture = "detecting" /\ calls[f].capturing
        /\ g \in DOMAIN calls /\ calls[g].error = CameraError

(***************************************************************************)
(* C36: one FaceAuth instance hands a descriptor to its parent at most     *)
(* once: a successful detection leaves capturing set, so that no further   *)
(* capture can be started, while a failed detection (no face, paused       *)
(* camera, exception) leaves the flag cleared and the capture button       *)
(* enabled again.                                                          *)
(***************************************************************************)
Delivers(f) == Live(f) /\ calls'[f].delivered = calls[f].delivered + 1

DetectionFails(f) ==
    /\ Live(f)
    /\ calls'[f].delivered = calls[f].delivered
    /\ \/ calls[f].capture = "detecting" /\ calls'[f].capture = "idle"
       \/ calls'[f].toast = ToastCameraNotActive /\ calls[f].toast # ToastCameraNotActive

\* the capture button of the instance can be pressed
CanCapture(c) ==
    c.error = Null /\ c.modelsLoaded /\ c.cameraActive /\ ~c.capturing

C36_DescriptorDeliveredOnce ==
    /\ [](\A f \in DOMAIN calls \cap FaceAuths :
             /\ calls[f].delivered <= 1
             /\ calls[f].delivered = 1 /\ calls[f].mounted
                   => calls[f].capturing /\ ~CanCapture(calls[f]))
    /\ [][\A f \in FaceAuths :
             /\ Delivers(f) => calls'[f].capturing /\ ~CanCapture(calls'[f])
             /\ DetectionFails(f) /\ calls'[f].mounted
                   => ~calls'[f].capturing /\ CanCapture(calls'[f])]_vars

\* an instance whose first detection found no face has delivered a
\* descriptor on a later capture and is still mounted
C36_Witness ==
    \E f \in FaceAuths :
        /\ IsMounted(f)
        /\ calls[f].delivered = 1
        /\ calls[f].toast = ToastNoFace
        /\ calls[f].capturing

(***************************************************************************)
(* C37: the poll page has at most one vote submission in flight at a time: *)
(* while isVoting is set the submit control is disabled, isVoting is       *)
(* cleared on every exit path of submitVote, and the page switches to the  *)
(* results view only after a submission succeeded or the has-voted probe   *)
(* reported a prior vote on a single-vote poll.                            *)
(***************************************************************************)
PageLive == "page" \in DOMAIN calls /\ "page" \in DOMAIN calls'

InFlightSubmissions == DOMAIN calls["page"].submits

\* the invocation s of submitVote ends on this step, with success if ok
SubmitExits(s, ok) ==
    /\ PageLive
    /\ s \in DOMAIN calls["page"].submits /\ s \notin DOMAIN calls'["page"].submits
    /\ s \in DOMAIN calls /\ calls[s].pc = "done" /\ calls[s].result.ok = ok

SwitchesToResults ==
    PageLive /\ calls["page"].view = "form" /\ calls'["page"].view = "results"

\* the subscription reports on this step a vote of this device on the
\* single-vote poll, for the first time since the page was loaded
ProbeReportsPriorVote ==
    /\ ~calls["page"].initialViewSet
    /\ calls'["page"].hasVoted = <<TRUE>>
    /\ calls["page"].hasVoted # <<TRUE>>
    /\ ~polls["p1"].settings.allowMultipleVotes

\* the step changes nothing of the page but its view
OnlyViewChanges == calls'["page"] = [calls["page"] EXCEPT !.view = "results"]

OneInFlight ==
    /\ Cardinality(InFlightSubmissions) <= 1
    /\ calls["page"].isVoting <=> InFlightSubmissions # {}

ExitClearsVoting ==
    \A s \in Submissions, ok \in BOOLEAN :
        SubmitExits(s, ok) => ~calls'["page"].isVoting

\* a submission starts only from a page that had none and was not voting
StartsOnlyWhenIdle ==
    PageLive /\ InFlightSubmissions' \ InFlightSubmissions # {}
        => /\ InFlightSubmissions = {}
           /\ ~calls["page"].isVoting

====
